---- MODULE Spec2Model ----
(***************************************************************************)
(* Mount-option policy engine of the disk-management daemon                *)
(* (src/src/udiskslinuxmountoptions.c).                                    *)
(*                                                                         *)
(* C strings are sequences of one-character strings, so that strchr,       *)
(* strncmp, g_strsplit, strtol and the libmount tokenizer are computed     *)
(* character by character.  A `gchar **` (and any other pointer that may   *)
(* be NULL) is NULL == << >> or Ptr(x) == << x >>, which keeps NULL apart  *)
(* from the empty, non-NULL string vector.                                 *)
(***************************************************************************)
EXTENDS Integers, Sequences, FiniteSets, TLC

VARIABLES
  builtin_opts,          \* daemon data "mount-options": the parsed built-in store
  config_file,           \* mount_options.conf as GKeyFile sees it (NULL: no such file)
  udev_props,            \* the block device's udev properties (NULL: no udev device)
  pc,                    \* position of the code the specification runs
  invocation,            \* arguments of the call in flight
  h_o,                   \* the origin's table an override step takes its sources (o) from;
                         \* for repeated evaluations, the GList *keys the tables list
  h_fsmo_any,            \* local fsmo_any: the general ("any") accumulator
  h_fsmo,                \* local fsmo: the fstype-specific accumulator, then the effective record
  h_options_to_use,      \* local options_to_use: the a{ss} of candidate options
  h_ret,                 \* what udisks_linux_calculate_mount_options returned
  supplementary_groups,  \* the static gid_t buffer of is_uid_in_gid
  served,                \* mount requests answered (resolver alone: origins applied) so far
  env_changed,           \* history: the file or the hints changed since the last answer
  thr                    \* locals of the handlers running concurrently, per thread

vars == << builtin_opts, config_file, udev_props, pc, invocation, h_o, h_fsmo_any,
           h_fsmo, h_options_to_use, h_ret, supplementary_groups, served,
           env_changed, thr >>

(***************************************************************************)
(* Pointers and strings                                                    *)
(***************************************************************************)
NULL == << >>

Ptr(x) == << x >>

Deref(p) == p[1]

RECURSIVE Flatten(_)
Flatten(ss) == IF ss = << >> THEN << >> ELSE Head(ss) \o Flatten(Tail(ss))

\* index of the first occurrence of character c in s, 0 when there is none
RECURSIVE strchr_from(_, _, _)
strchr_from(s, c, i) ==
  IF i > Len(s) THEN 0
  ELSE IF s[i] = c THEN i
  ELSE strchr_from(s, c, i + 1)

strchr(s, c) == strchr_from(s, c, 1)

\* strstr (key, ",") != NULL
has_comma(s) == strchr(s, ",") # 0

g_str_has_prefix(s, p) == Len(s) >= Len(p) /\ SubSeq(s, 1, Len(p)) = p

g_str_has_suffix(s, p) ==
  Len(s) >= Len(p) /\ SubSeq(s, Len(s) - Len(p) + 1, Len(s)) = p

g_strv_contains(strv, s) == \E i \in 1..Len(strv) : strv[i] = s

\* the character at 1-based position i of the C string s, "NUL" for its terminator
CharAt(s, i) == IF i <= Len(s) THEN s[i] ELSE "NUL"

\* strncmp (a, b, n) == 0: the first n characters agree, or both strings end earlier
RECURSIVE strncmp_eq_from(_, _, _, _)
strncmp_eq_from(a, b, n, i) ==
  IF i > n THEN TRUE
  ELSE IF CharAt(a, i) # CharAt(b, i) THEN FALSE
  ELSE IF CharAt(a, i) = "NUL" THEN TRUE
  ELSE strncmp_eq_from(a, b, n, i + 1)

strncmp_eq(a, b, n) == strncmp_eq_from(a, b, n, 1)

UpperCase == << "A","B","C","D","E","F","G","H","I","J","K","L","M",
                "N","O","P","Q","R","S","T","U","V","W","X","Y","Z" >>

LowerCase == << "a","b","c","d","e","f","g","h","i","j","k","l","m",
                "n","o","p","q","r","s","t","u","v","w","x","y","z" >>

g_ascii_tolower(c) ==
  IF \E i \in 1..26 : UpperCase[i] = c
  THEN LowerCase[CHOOSE i \in 1..26 : UpperCase[i] = c]
  ELSE c

g_ascii_strdown(s) == [i \in 1..Len(s) |-> g_ascii_tolower(s[i])]

\* g_strsplit (s, ",", -1): the empty string gives the empty vector
RECURSIVE g_strsplit_from(_, _, _)
g_strsplit_from(s, i, cur) ==
  IF i > Len(s) THEN << cur >>
  ELSE IF s[i] = "," THEN << cur >> \o g_strsplit_from(s, i + 1, << >>)
  ELSE g_strsplit_from(s, i + 1, Append(cur, s[i]))

g_strsplit(s) == IF s = << >> THEN << >> ELSE g_strsplit_from(s, 1, << >>)

Digits == << "0","1","2","3","4","5","6","7","8","9" >>

IsDigit(c) == \E i \in 1..10 : Digits[i] = c

DigitVal(c) == (CHOOSE i \in 1..10 : Digits[i] = c) - 1

\* g_strdup_printf ("%u", n)
RECURSIVE fmt_u(_)
fmt_u(n) == IF n < 10 THEN << Digits[n + 1] >> ELSE Append(fmt_u(n \div 10), Digits[(n % 10) + 1])

(***************************************************************************)
(* strtol and the conversion of its result to uid_t / gid_t                *)
(***************************************************************************)
\* a 32-bit unsigned value as << high 16 bits, low 16 bits >>
U32(n) == << n \div 65536, n % 65536 >>

\* (v * 10 + d) modulo 2^32
U32MulAdd(v, d) ==
  LET lo == v[2] * 10 + d
      hi == v[1] * 10 + (lo \div 65536)
  IN  << hi % 65536, lo % 65536 >>

\* (0 - v) modulo 2^32
U32Neg(v) ==
  IF v[2] = 0 THEN << (65536 - v[1]) % 65536, 0 >>
  ELSE << 65535 - v[1], 65536 - v[2] >>

RECURSIVE U32OfDigits(_, _)
U32OfDigits(ds, acc) ==
  IF ds = << >> THEN acc ELSE U32OfDigits(Tail(ds), U32MulAdd(acc, DigitVal(Head(ds))))

\* isspace() in the C locale ("VT" stands for the vertical tab)
IsSpace(c) == c \in { " ", "\t", "\n", "VT", "\f", "\r" }

RECURSIVE SkipSpaces(_, _)
SkipSpaces(s, i) == IF i <= Len(s) /\ IsSpace(s[i]) THEN SkipSpaces(s, i + 1) ELSE i

RECURSIVE SkipDigits(_, _)
SkipDigits(s, i) == IF i <= Len(s) /\ IsDigit(s[i]) THEN SkipDigits(s, i + 1) ELSE i

RECURSIVE StripZeros(_)
StripZeros(ds) == IF ds # << >> /\ Head(ds) = "0" THEN StripZeros(Tail(ds)) ELSE ds

\* a < b for digit strings of equal length
RECURSIVE DigitsLess(_, _)
DigitsLess(a, b) ==
  IF a = << >> THEN FALSE
  ELSE IF Head(a) # Head(b) THEN DigitVal(Head(a)) < DigitVal(Head(b))
  ELSE DigitsLess(Tail(a), Tail(b))

\* magnitude a > magnitude b, both without leading zeros
DigitsGreater(a, b) == Len(a) > Len(b) \/ (Len(a) = Len(b) /\ DigitsLess(b, a))

\* LONG_MAX and -LONG_MIN of a 64-bit long (LP64, the daemon's Linux targets)
LONG_MAX_DIGITS ==
  << "9","2","2","3","3","7","2","0","3","6","8","5","4","7","7","5","8","0","7" >>

LONG_MIN_DIGITS ==
  << "9","2","2","3","3","7","2","0","3","6","8","5","4","7","7","5","8","0","8" >>

\* strtol (value, &endp, 10) assigned to a uid_t or gid_t:
\*   endp: position of *endp (Len + 1 is the terminating NUL)
\*   val:  the long converted to 32-bit unsigned
strtol(value) ==
  LET i0     == SkipSpaces(value, 1)
      signed == i0 <= Len(value) /\ value[i0] \in { "+", "-" }
      neg    == signed /\ value[i0] = "-"
      i1     == IF signed THEN i0 + 1 ELSE i0
      i2     == SkipDigits(value, i1)
      ds     == StripZeros(SubSeq(value, i1, i2 - 1))
  IN  IF i2 = i1 THEN [endp |-> 1, val |-> U32(0)]              \* no digits: endp = nptr
      ELSE IF ~neg /\ DigitsGreater(ds, LONG_MAX_DIGITS)
        THEN [endp |-> i2, val |-> << 65535, 65535 >>]           \* LONG_MAX
      ELSE IF neg /\ DigitsGreater(ds, LONG_MIN_DIGITS)
        THEN [endp |-> i2, val |-> U32(0)]                       \* LONG_MIN
      ELSE [endp |-> i2,
            val  |-> IF neg THEN U32Neg(U32OfDigits(ds, U32(0))) ELSE U32OfDigits(ds, U32(0))]

(***************************************************************************)
(* libmount's option tokenizer, as parse_mount_options_string calls it.    *)
(* Items are separated by commas outside double quotes; the first '=' of   *)
(* an item that is not its first character separates name and value; the   *)
(* quotes stay part of the item; an empty item is a syntax error, as in    *)
(* the libmount releases that do not skip repeated commas.                 *)
(***************************************************************************)
RECURSIVE optstr_scan(_, _, _, _, _)
optstr_scan(s, p, start, open_quote, sep) ==
  IF p > Len(s) THEN [ret |-> 1, name |-> << >>, value |-> NULL, next |-> p]
  ELSE
    LET start1 == IF start = 0 THEN p ELSE start
        quote1 == IF s[p] = "\"" THEN ~open_quote ELSE open_quote
    IN  IF quote1 THEN optstr_scan(s, p + 1, start1, quote1, sep)
        ELSE
          LET sep1 == IF sep = 0 /\ p > start1 /\ s[p] = "=" THEN p ELSE sep
              stop == IF s[p] = "," THEN p ELSE IF p = Len(s) THEN p + 1 ELSE 0
          IN  IF stop = 0 THEN optstr_scan(s, p + 1, start1, quote1, sep1)
              ELSE IF stop <= start1
                THEN [ret |-> -1, name |-> << >>, value |-> NULL, next |-> p]
              ELSE [ret   |-> 0,
                    name  |-> SubSeq(s, start1, (IF sep1 # 0 THEN sep1 ELSE stop) - 1),
                    value |-> IF sep1 # 0 THEN Ptr(SubSeq(s, sep1 + 1, stop - 1)) ELSE NULL,
                    next  |-> IF stop <= Len(s) THEN stop + 1 ELSE stop]

mnt_optstr_next_option(s, optstr) == optstr_scan(s, optstr, 0, FALSE, 0)

RECURSIVE parse_mount_options_loop(_, _, _)
parse_mount_options_loop(str, optstr, opts) ==
  LET r == mnt_optstr_next_option(str, optstr)
  IN  IF r.ret = 0
        THEN parse_mount_options_loop(str, r.next,
               Append(opts, IF r.value = NULL THEN r.name
                            ELSE r.name \o << "=" >> \o Deref(r.value)))
      ELSE IF r.ret < 0 THEN NULL
      ELSE Ptr(opts)

\* str: NULL or Ptr(string); the result: NULL or Ptr(vector of option tokens)
parse_mount_options_string(str) ==
  IF str = NULL THEN NULL ELSE parse_mount_options_loop(Deref(str), 1, << >>)

(***************************************************************************)
(* FSMountOptions and the two merge operations                             *)
(***************************************************************************)
Members == { "defaults", "allow", "allow_uid_self", "allow_gid_self" }

\* g_malloc0 (sizeof (FSMountOptions)): every member NULL
FSMountOptions0 ==
  [defaults |-> NULL, allow |-> NULL, allow_uid_self |-> NULL, allow_gid_self |-> NULL]

\* the entries of a string vector that may be NULL
Entries(strv) == IF strv = NULL THEN << >> ELSE Deref(strv)

\* variant: every entry of src is appended
strv_append_all(src, dest) ==
  IF src = NULL \/ Len(Deref(src)) = 0 THEN dest
  ELSE IF dest = NULL THEN Ptr(Deref(src))
  ELSE Ptr(Deref(dest) \o Deref(src))

\* the new *dest
strv_append_unique(src, dest) ==
  IF src = NULL \/ Len(Deref(src)) = 0 THEN dest
  ELSE IF dest = NULL THEN Ptr(Deref(src))
  ELSE LET l == SelectSeq(Deref(src), LAMBDA s : ~g_strv_contains(Deref(dest), s))
       IN  IF Len(l) > 0 THEN Ptr(Deref(dest) \o l) ELSE dest

\* src: NULL or Ptr(FSMountOptions); the new *dest
append_fs_mount_options(src, dest) ==
  IF src = NULL THEN dest
  ELSE [m \in Members |-> strv_append_unique(Deref(src)[m], dest[m])]

\* variant: a member is taken over only when it has entries
OVERRIDE_MEMBER_nonempty(src_m, dest_m) ==
  IF src_m # NULL /\ Len(Deref(src_m)) > 0 THEN src_m ELSE dest_m

\* OVERRIDE_MEMBER (m)
OVERRIDE_MEMBER(src_m, dest_m) == IF src_m # NULL THEN src_m ELSE dest_m

\* src: NULL or Ptr(FSMountOptions); the new *dest
override_fs_mount_options(src, dest) ==
  IF src = NULL THEN dest
  ELSE [m \in Members |-> OVERRIDE_MEMBER(Deref(src)[m], dest[m])]

(***************************************************************************)
(* Strings of the program                                                  *)
(***************************************************************************)
MOUNT_OPTIONS_CONFIG_GROUP_DEFAULTS == << "d","e","f","a","u","l","t","s" >>

MOUNT_OPTIONS_KEY_DEFAULTS == << "d","e","f","a","u","l","t","s" >>

MOUNT_OPTIONS_KEY_ALLOW == << "a","l","l","o","w" >>

MOUNT_OPTIONS_KEY_ALLOW_UID_SELF ==
  << "a","l","l","o","w","_","u","i","d","_","s","e","l","f" >>

MOUNT_OPTIONS_KEY_ALLOW_GID_SELF ==
  << "a","l","l","o","w","_","g","i","d","_","s","e","l","f" >>

UDEV_MOUNT_OPTIONS_PREFIX ==
  << "U","D","I","S","K","S","_","M","O","U","N","T","_",
     "O","P","T","I","O","N","S","_" >>

UDISKS_FILESYSTEM_SHARED ==
  << "U","D","I","S","K","S","_","F","I","L","E","S","Y","S","T","E","M","_",
     "S","H","A","R","E","D" >>

\* "\1": a{ss} holds no NULL, so this string stands for "no value"
VARIANT_NULL_STRING == << "SOH" >>

FIXED_OPTIONS ==
  << "u","h","e","l","p","e","r","=","u","d","i","s","k","s","2",",",
     "n","o","d","e","v",",","n","o","s","u","i","d" >>

(***************************************************************************)
(* GHashTable: a function from its keys to its values                      *)
(***************************************************************************)
g_hash_table_new == << >>

g_hash_table_lookup(h, k) == IF k \in DOMAIN h THEN Ptr(h[k]) ELSE NULL

g_hash_table_replace(h, k, v) == [x \in (DOMAIN h) \cup { k } |-> IF x = k THEN v ELSE h[x]]

(***************************************************************************)
(* Policy loaders                                                          *)
(***************************************************************************)
\* TEST_AND_RETURN_GROUP (g): key ends in "_" g
TEST_GROUP(key, g) == g_str_has_suffix(key, << "_" >> \o g)

\* fs_type: NULL or Ptr(string); group: the key name the value belongs to
extract_fs_type(key) ==
  IF key \in { MOUNT_OPTIONS_KEY_DEFAULTS, MOUNT_OPTIONS_KEY_ALLOW,
               MOUNT_OPTIONS_KEY_ALLOW_UID_SELF, MOUNT_OPTIONS_KEY_ALLOW_GID_SELF }
    THEN [fs_type |-> Ptr(MOUNT_OPTIONS_CONFIG_GROUP_DEFAULTS), group |-> Ptr(key)]
  ELSE LET hit(g) == [fs_type |-> Ptr(SubSeq(key, 1, Len(key) - Len(g) - 1)),
                      group   |-> Ptr(g)]
       IN  IF TEST_GROUP(key, MOUNT_OPTIONS_KEY_ALLOW_UID_SELF)
             THEN hit(MOUNT_OPTIONS_KEY_ALLOW_UID_SELF)
           ELSE IF TEST_GROUP(key, MOUNT_OPTIONS_KEY_ALLOW_GID_SELF)
             THEN hit(MOUNT_OPTIONS_KEY_ALLOW_GID_SELF)
           ELSE IF TEST_GROUP(key, MOUNT_OPTIONS_KEY_ALLOW)
             THEN hit(MOUNT_OPTIONS_KEY_ALLOW)
           ELSE IF TEST_GROUP(key, MOUNT_OPTIONS_KEY_DEFAULTS)
             THEN hit(MOUNT_OPTIONS_KEY_DEFAULTS)
           ELSE [fs_type |-> NULL, group |-> NULL]

\* ASSIGN_OPTS: the member of the entry that key's group names
MemberOfGroup(group) ==
  IF group = MOUNT_OPTIONS_KEY_ALLOW_UID_SELF THEN "allow_uid_self"
  ELSE IF group = MOUNT_OPTIONS_KEY_ALLOW_GID_SELF THEN "allow_gid_self"
  ELSE IF group = MOUNT_OPTIONS_KEY_ALLOW THEN "allow"
  ELSE "defaults"

\* the hash table after the key/value pair is parsed into it
parse_key_value_pair(mount_options, key, value) ==
  LET e == extract_fs_type(key)
  IN  IF e.fs_type = NULL THEN mount_options
      ELSE LET fs_type == Deref(e.fs_type)
               found   == g_hash_table_lookup(mount_options, fs_type)
               ent     == IF found = NULL THEN FSMountOptions0 ELSE Deref(found)
               opts    == parse_mount_options_string(Ptr(value))
           IN  g_hash_table_replace(mount_options, fs_type,
                 [ent EXCEPT ![MemberOfGroup(Deref(e.group))] = opts])

\* keys: the group's << key, value >> pairs in file order, walked from the last to the first
RECURSIVE mount_options_parse_keys(_, _, _)
mount_options_parse_keys(keys, keys_len, mount_options) ==
  IF keys_len = 0 THEN mount_options
  ELSE mount_options_parse_keys(keys, keys_len - 1,
         parse_key_value_pair(mount_options, g_ascii_strdown(keys[keys_len][1]),
                              keys[keys_len][2]))

mount_options_parse_group(group) ==
  mount_options_parse_keys(group.keys, Len(group.keys), g_hash_table_new)

RECURSIVE mount_options_parse_groups(_, _, _)
mount_options_parse_groups(groups, groups_len, mount_options) ==
  IF groups_len = 0 THEN mount_options
  ELSE mount_options_parse_groups(groups, groups_len - 1,
         g_hash_table_replace(mount_options, groups[groups_len].name,
                              mount_options_parse_group(groups[groups_len])))

\* key_file: the sequence of its groups [name, keys]; NULL when it has no group
mount_options_parse_key_file(key_file) ==
  IF Len(key_file) = 0 THEN NULL
  ELSE Ptr(mount_options_parse_groups(key_file, Len(key_file), g_hash_table_new))

\* file: NULL when g_key_file_load_from_file fails, else Ptr(key file)
mount_options_parse_config_file(file) ==
  IF file = NULL THEN NULL ELSE mount_options_parse_key_file(Deref(file))

RECURSIVE mount_options_udev_keys(_, _, _)
mount_options_udev_keys(props, i, mount_options) ==
  IF i > Len(props) THEN mount_options
  ELSE mount_options_udev_keys(props, i + 1,
         IF g_str_has_prefix(props[i][1], UDEV_MOUNT_OPTIONS_PREFIX)
           THEN parse_key_value_pair(mount_options,
                  g_ascii_strdown(SubSeq(props[i][1], Len(UDEV_MOUNT_OPTIONS_PREFIX) + 1,
                                         Len(props[i][1]))),
                  props[i][2])
           ELSE mount_options)

\* device: NULL when there is no udev device, else Ptr(its << key, value >> properties)
mount_options_get_from_udev(device) ==
  IF device = NULL THEN NULL
  ELSE Ptr(mount_options_udev_keys(Deref(device), 1, g_hash_table_new))

\* resource: the key file of builtin_mount_options.conf
udisks_linux_mount_options_get_builtin(resource) ==
  LET mount_options == mount_options_parse_key_file(resource)
  IN  IF mount_options = NULL THEN NULL
      ELSE IF MOUNT_OPTIONS_CONFIG_GROUP_DEFAULTS \notin DOMAIN Deref(mount_options) THEN NULL
      ELSE mount_options

(***************************************************************************)
(* Policy resolver                                                         *)
(***************************************************************************)
\* the keys of opts that name the block device: its device file or one of its symlinks
BlockKeys(opts, block) ==
  { k \in DOMAIN opts : k # MOUNT_OPTIONS_CONFIG_GROUP_DEFAULTS
                        /\ (k = block.device \/ g_strv_contains(block.symlinks, k)) }

RECURSIVE SetToSeq(_)
SetToSeq(S) == IF S = { } THEN << >>
               ELSE LET x == CHOOSE x \in S : TRUE IN << x >> \o SetToSeq(S \ { x })

\* g_hash_table_get_keys (opts): the orders in which the table may list its keys,
\* one for each key that can come first among those naming the block device
KeyOrders(opts, block) ==
  IF BlockKeys(opts, block) = { } THEN { SetToSeq(DOMAIN opts) }
  ELSE { << k >> \o SetToSeq((DOMAIN opts) \ { k }) : k \in BlockKeys(opts, block) }

\* the loop over keys: the table of the first key that names the block device
RECURSIVE match_block_device(_, _, _, _)
match_block_device(opts, block, keys, l) ==
  IF l > Len(keys) THEN NULL
  ELSE IF keys[l] = MOUNT_OPTIONS_CONFIG_GROUP_DEFAULTS
    THEN match_block_device(opts, block, keys, l + 1)
  ELSE IF keys[l] = block.device \/ g_strv_contains(block.symlinks, keys[l])
    THEN g_hash_table_lookup(opts, keys[l])
  ELSE match_block_device(opts, block, keys, l + 1)

\* one level of overrides applied to acc = [fsmo, fsmo_any, changed]
override_level(table, fstype, acc) ==
  IF table = NULL THEN acc
  ELSE LET o_any == g_hash_table_lookup(Deref(table), MOUNT_OPTIONS_CONFIG_GROUP_DEFAULTS)
           o_fs  == g_hash_table_lookup(Deref(table), fstype)
       IN  [fsmo     |-> override_fs_mount_options(o_fs, acc.fsmo),
            fsmo_any |-> override_fs_mount_options(o_any, acc.fsmo_any),
            changed  |-> acc.changed \/ o_any # NULL \/ o_fs # NULL]

\* variant: the block device's options are applied before the general ones
compute_block_level_general_last(opts, keys, block, fstype, acc) ==
  LET general_options == g_hash_table_lookup(opts, MOUNT_OPTIONS_CONFIG_GROUP_DEFAULTS)
      block_options   == match_block_device(opts, block, keys, 1)
      specific        == override_level(block_options, fstype,
                                        [acc EXCEPT !.changed = FALSE])
  IN  override_level(general_options, fstype, specific)

\* opts: a two-level table; keys: g_hash_table_get_keys (opts); acc = [fsmo, fsmo_any, changed]
compute_block_level_mount_options(opts, keys, block, fstype, acc) ==
  LET general_options == g_hash_table_lookup(opts, MOUNT_OPTIONS_CONFIG_GROUP_DEFAULTS)
      block_options   == match_block_device(opts, block, keys, 1)
      general         == override_level(general_options, fstype,
                                        [acc EXCEPT !.changed = FALSE])
  IN  override_level(block_options, fstype, general)

\* builtin: the daemon's built-in table; overrides: the parsed config file or NULL;
\* udev: the parsed udev properties or NULL.  The result is [fsmo, fsmo_any, changed]
\* right before "any" is merged into the fstype-specific options.
compute_levels(builtin, builtin_keys, overrides, override_keys, udev, block, fstype) ==
  LET l1 == compute_block_level_mount_options(builtin, builtin_keys, block, fstype,
              [fsmo |-> FSMountOptions0, fsmo_any |-> FSMountOptions0, changed |-> FALSE])
      l2 == IF overrides # NULL
              THEN compute_block_level_mount_options(Deref(overrides), override_keys,
                                                     block, fstype, l1)
              ELSE [l1 EXCEPT !.changed = FALSE]
  IN  override_level(udev, fstype, l2)

compute_mount_options_for_fs_type(builtin, builtin_keys, file, override_keys, device, block, fstype) ==
  LET l == compute_levels(builtin, builtin_keys, mount_options_parse_config_file(file),
                          override_keys, mount_options_get_from_udev(device), block, fstype)
  IN  append_fs_mount_options(Ptr(l.fsmo_any), l.fsmo)

(***************************************************************************)
(* The user database (udisks_daemon_util_get_user_info, getgrouplist)      *)
(***************************************************************************)
\* passwd entries: uid -> primary group and the groups getgrouplist reports
PASSWD ==
  [u \in { 0, 1000, 1001 } |->
     IF u = 0 THEN [user_name |-> "root", gid |-> 0, groups |-> << 0 >>]
     ELSE IF u = 1000 THEN [user_name |-> "alice", gid |-> 1000, groups |-> << 1000, 100 >>]
     ELSE [user_name |-> "bob", gid |-> 1001, groups |-> << 1001, 6 >>]]

\* NULL when the uid has no passwd entry
udisks_daemon_util_get_user_info(uid) ==
  IF uid \in DOMAIN PASSWD THEN Ptr(PASSWD[uid]) ELSE NULL

NUM_SUPPLEMENTARY_GROUPS == 128

\* the groups of the user, or NULL (-1) when they do not fit in *ngroups entries
getgrouplist(info, ngroups) ==
  IF Len(info.groups) > ngroups THEN NULL ELSE Ptr(info.groups)

\* the entries of the static buffer that the users of PASSWD can reach
BufferLen ==
  CHOOSE n \in 0..NUM_SUPPLEMENTARY_GROUPS :
    /\ \A u \in DOMAIN PASSWD : Len(PASSWD[u].groups) <= n
    /\ \E u \in DOMAIN PASSWD : Len(PASSWD[u].groups) = n

\* static storage is zero-initialised
supplementary_groups0 == [n \in 1..BufferLen |-> 0]

\* getgrouplist writing its result at the start of the buffer
write_groups(buf, groups) ==
  [n \in 1..BufferLen |-> IF n <= Len(groups) THEN groups[n] ELSE buf[n]]

\* gid: 32-bit value; [ret, buf]: the answer and the static buffer afterwards
is_uid_in_gid(uid, gid, buf) ==
  LET info == udisks_daemon_util_get_user_info(uid)
  IN  IF info = NULL THEN [ret |-> FALSE, buf |-> buf]
      ELSE IF U32(Deref(info).gid) = gid THEN [ret |-> TRUE, buf |-> buf]
      ELSE LET groups == getgrouplist(Deref(info), NUM_SUPPLEMENTARY_GROUPS)
           IN  IF groups = NULL THEN [ret |-> FALSE, buf |-> buf]
               ELSE LET buf1 == write_groups(buf, Deref(groups))
                    IN  [ret |-> \E n \in 1..Len(Deref(groups)) : U32(buf1[n]) = gid,
                         buf |-> buf1]

(***************************************************************************)
(* Allow-list evaluator                                                    *)
(***************************************************************************)
OptionEqValue(option, value) == option \o << "=" >> \o value

\* variant: the plain allow entries and the x- prefix are looked at before the
\* identity lists
allow_rule_allow_first(fsmo, option, value) ==
  IF /\ fsmo.allow # NULL /\ value # NULL /\ Len(Deref(value)) > 0
     /\ g_strv_contains(Deref(fsmo.allow), OptionEqValue(option, Deref(value)))
    THEN "exact"
  ELSE IF /\ fsmo.allow # NULL
          /\ \/ g_strv_contains(Deref(fsmo.allow), option \o << "=" >>)
             \/ g_strv_contains(Deref(fsmo.allow), option)
    THEN "allow"
  ELSE IF g_str_has_prefix(option, << "x", "-" >>) THEN "x-"
  ELSE IF fsmo.allow_uid_self # NULL /\ g_strv_contains(Deref(fsmo.allow_uid_self), option)
    THEN "uid_self"
  ELSE IF fsmo.allow_gid_self # NULL /\ g_strv_contains(Deref(fsmo.allow_gid_self), option)
    THEN "gid_self"
  ELSE "none"

\* which of the function's returns decides: "exact", "uid_self", "gid_self",
\* "allow", "x-" or "none"
allow_rule(fsmo, option, value) ==
  IF /\ fsmo.allow # NULL /\ value # NULL /\ Len(Deref(value)) > 0
     /\ g_strv_contains(Deref(fsmo.allow), OptionEqValue(option, Deref(value)))
    THEN "exact"
  ELSE IF fsmo.allow_uid_self # NULL /\ g_strv_contains(Deref(fsmo.allow_uid_self), option)
    THEN "uid_self"
  ELSE IF fsmo.allow_gid_self # NULL /\ g_strv_contains(Deref(fsmo.allow_gid_self), option)
    THEN "gid_self"
  ELSE IF /\ fsmo.allow # NULL
          /\ \/ g_strv_contains(Deref(fsmo.allow), option \o << "=" >>)
             \/ g_strv_contains(Deref(fsmo.allow), option)
    THEN "allow"
  ELSE IF g_str_has_prefix(option, << "x", "-" >>) THEN "x-"
  ELSE "none"

\* the value of a uid/gid option: NULL when it is missing, empty or malformed
self_value(value) ==
  IF value = NULL \/ Len(Deref(value)) = 0 THEN NULL
  ELSE LET r == strtol(Deref(value))
       IN  IF r.endp <= Len(Deref(value)) THEN NULL ELSE Ptr(r.val)

\* value: NULL or Ptr(string); [ret, buf]: the answer and the static buffer afterwards
is_mount_option_allowed(fsmo, option, value, caller_uid, buf) ==
  LET rule == allow_rule(fsmo, option, value)
  IN  IF rule = "exact" THEN [ret |-> TRUE, buf |-> buf]
      ELSE IF rule = "uid_self"
        THEN LET uid == self_value(value)
             IN  [ret |-> uid # NULL /\ Deref(uid) = U32(caller_uid), buf |-> buf]
      ELSE IF rule = "gid_self"
        THEN LET gid == self_value(value)
             IN  IF gid = NULL THEN [ret |-> FALSE, buf |-> buf]
                 ELSE is_uid_in_gid(caller_uid, Deref(gid), buf)
      ELSE [ret |-> rule \in { "allow", "x-" }, buf |-> buf]

(***************************************************************************)
(* Default synthesizer                                                     *)
(***************************************************************************)
\* the printable ASCII characters, from code 32 ("GRAVE" stands for the backquote)
ASCII ==
  <<
     " ","!","\"","#","$","%","&","'","(",")","*","+",",","-",".","/",
     "0","1","2","3","4","5","6","7","8","9",":",";","<","=",">","?",
     "@","A","B","C","D","E","F","G","H","I","J","K","L","M","N","O",
     "P","Q","R","S","T","U","V","W","X","Y","Z","[","\\","]","^","_",
     "GRAVE","a","b","c","d","e","f","g","h","i","j","k","l","m","n","o",
     "p","q","r","s","t","u","v","w","x","y","z","{","|","}","~" >>

Ord(c) == IF c = "NUL" THEN 0 ELSE 31 + CHOOSE i \in 1..Len(ASCII) : ASCII[i] = c

Chr(n) == ASCII[n - 31]

MAX(a, b) == IF a > b THEN a ELSE b

\* variant: group and others get the owner's digit less the write bit, no floor
set_shared_mode_no_floor(value, heap) ==
  LET d == Chr(Ord(CharAt(value, 2)) - 2)
  IN  IF Len(value) < 2 THEN value
      ELSE IF Len(value) < 4 THEN SubSeq(value, 1, 2) \o << d, d >> \o heap
      ELSE [value EXCEPT ![3] = d, ![4] = d]

\* shared_mode after the two assignments to shared_mode[2] and shared_mode[3].
\* g_strdup gives Len + 1 bytes: a write at or past the terminator is out of bounds,
\* and when the terminator is overwritten the string runs on into `heap`, the bytes
\* that happen to follow up to the next NUL.
set_shared_mode(value, heap) ==
  LET d == Chr(MAX(Ord(CharAt(value, 2)) - 2, Ord("4")))
  IN  IF Len(value) < 2 THEN value
      ELSE IF Len(value) < 4 THEN SubSeq(value, 1, 2) \o << d, d >> \o heap
      ELSE [value EXCEPT ![3] = d, ![4] = d]

s_uid == << "u","i","d" >>

s_gid == << "g","i","d" >>

s_mode == << "m","o","d","e" >>

s_dmode == << "d","m","o","d","e" >>

s_0555 == << "0","5","5","5" >>

\* the C indices of shared_mode that the adjustment reads and writes
shared_mode_read == { 1 }

shared_mode_written == { 2, 3 }

\* variant: every defaults token is passed on as it stands
default_option_verbatim(fsmo, option, caller_uid, shared_fs, heap) ==
  LET eq == strchr(option, "=")
  IN  IF eq = 0 THEN << << option, VARIANT_NULL_STRING >> >>
      ELSE << << SubSeq(option, 1, eq - 1), SubSeq(option, eq + 1, Len(option)) >> >>

\* the a{ss} entries one token of fsmo->defaults adds
default_option(fsmo, option, caller_uid, shared_fs, heap) ==
  LET eq == strchr(option, "=")
  IN  IF eq = 0 THEN << << option, VARIANT_NULL_STRING >> >>
      ELSE
        LET value   == SubSeq(option, eq + 1, Len(option))
            opt_len == eq - 1
            s       == SubSeq(option, 1, opt_len)
            info    == udisks_daemon_util_get_user_info(caller_uid)
        IN  IF /\ Len(value) > 0 /\ fsmo.allow # NULL
               /\ g_strv_contains(Deref(fsmo.allow), option)
              THEN << << s, value >> >>
            ELSE IF strncmp_eq(option, s_uid, opt_len)
              THEN << << s_uid, fmt_u(caller_uid) >> >>
            ELSE IF strncmp_eq(option, s_gid, opt_len)
              THEN IF info # NULL THEN << << s_gid, fmt_u(Deref(info).gid) >> >> ELSE << >>
            ELSE IF shared_fs /\ strncmp_eq(option, s_mode, opt_len)
              THEN << << s_mode, set_shared_mode(value, heap) >> >>
            ELSE IF shared_fs /\ strncmp_eq(option, s_dmode, opt_len)
              THEN << << s_dmode, s_0555 >> >>
            ELSE << << s, value >> >>

\* the a{ss} entry of one item of the caller's option string
given_option(option) ==
  LET eq == strchr(option, "=")
  IN  IF eq = 0 THEN << option, VARIANT_NULL_STRING >>
      ELSE << SubSeq(option, 1, eq - 1), SubSeq(option, eq + 1, Len(option)) >>

\* variant: the caller's option string is taken as one option
prepend_default_mount_options_unsplit(fsmo, caller_uid, given_options, shared_fs, heap) ==
  LET defaults == Entries(fsmo.defaults)
  IN  Flatten([n \in 1..Len(defaults) |->
                 default_option(fsmo, defaults[n], caller_uid, shared_fs, heap)])
      \o (IF given_options = NULL THEN << >> ELSE << given_option(Deref(given_options)) >>)

\* given_options: NULL (no "options" entry) or Ptr(option string)
prepend_default_mount_options(fsmo, caller_uid, given_options, shared_fs, heap) ==
  LET defaults == Entries(fsmo.defaults)
      split    == IF given_options = NULL THEN << >> ELSE g_strsplit(Deref(given_options))
  IN  Flatten([n \in 1..Len(defaults) |->
                 default_option(fsmo, defaults[n], caller_uid, shared_fs, heap)])
      \o [n \in 1..Len(split) |-> given_option(split[n])]

(***************************************************************************)
(* Mount-option assembler                                                  *)
(***************************************************************************)
UDISKS_ERROR_OPTION_NOT_PERMITTED == "UDISKS_ERROR_OPTION_NOT_PERMITTED"

MSG_MALFORMED == "Malformed mount option"

MSG_NOT_ALLOWED == "Mount option is not allowed"

\* g_set_error: the error's code, the message's text and the option it names
g_set_error(code, message, key, value) ==
  Ptr([code |-> code, message |-> message, key |-> key, value |-> value])

RECURSIVE validate_options(_, _, _, _, _, _)

\* variant: a candidate that is not allowed is left out and the loop goes on
validate_options_dropping(fsmo, options, n, str, caller_uid, buf) ==
  IF n > Len(options) THEN [str |-> Ptr(str), error |-> NULL, buf |-> buf]
  ELSE
    LET key     == options[n][1]
        value   == IF options[n][2] = VARIANT_NULL_STRING THEN NULL ELSE Ptr(options[n][2])
        allowed == is_mount_option_allowed(fsmo, key, value, caller_uid, buf)
    IN  IF has_comma(key)
          THEN [str   |-> NULL,
                error |-> g_set_error(UDISKS_ERROR_OPTION_NOT_PERMITTED, MSG_MALFORMED,
                                      key, NULL),
                buf   |-> buf]
        ELSE validate_options(fsmo, options, n + 1,
               IF allowed.ret
                 THEN str \o << "," >> \o (IF value = NULL THEN key
                                           ELSE OptionEqValue(key, Deref(value)))
                 ELSE str,
               caller_uid, allowed.buf)

\* variant: the name of a candidate is not searched for a comma
validate_options_any_name(fsmo, options, n, str, caller_uid, buf) ==
  IF n > Len(options) THEN [str |-> Ptr(str), error |-> NULL, buf |-> buf]
  ELSE
    LET key     == options[n][1]
        value   == IF options[n][2] = VARIANT_NULL_STRING THEN NULL ELSE Ptr(options[n][2])
        allowed == is_mount_option_allowed(fsmo, key, value, caller_uid, buf)
    IN  IF ~allowed.ret
          THEN [str   |-> NULL,
                error |-> g_set_error(UDISKS_ERROR_OPTION_NOT_PERMITTED, MSG_NOT_ALLOWED,
                                      key, value),
                buf   |-> allowed.buf]
        ELSE validate_options(fsmo, options, n + 1,
               str \o << "," >> \o (IF value = NULL THEN key
                                    ELSE OptionEqValue(key, Deref(value))),
               caller_uid, allowed.buf)

\* the validation loop from entry n on; str is the GString built so far
validate_options(fsmo, options, n, str, caller_uid, buf) ==
  IF n > Len(options) THEN [str |-> Ptr(str), error |-> NULL, buf |-> buf]
  ELSE
    LET key     == options[n][1]
        value   == IF options[n][2] = VARIANT_NULL_STRING THEN NULL ELSE Ptr(options[n][2])
        allowed == is_mount_option_allowed(fsmo, key, value, caller_uid, buf)
    IN  IF has_comma(key)
          THEN [str   |-> NULL,
                error |-> g_set_error(UDISKS_ERROR_OPTION_NOT_PERMITTED, MSG_MALFORMED,
                                      key, NULL),
                buf   |-> buf]
        ELSE IF ~allowed.ret
          THEN [str   |-> NULL,
                error |-> g_set_error(UDISKS_ERROR_OPTION_NOT_PERMITTED, MSG_NOT_ALLOWED,
                                      key, value),
                buf   |-> allowed.buf]
        ELSE validate_options(fsmo, options, n + 1,
               str \o << "," >> \o (IF value = NULL THEN key
                                    ELSE OptionEqValue(key, Deref(value))),
               caller_uid, allowed.buf)

\* g_udev_device_get_property: NULL or Ptr(value)
RECURSIVE g_udev_device_get_property(_, _, _)
g_udev_device_get_property(props, key, i) ==
  IF i > Len(props) THEN NULL
  ELSE IF props[i][1] = key THEN Ptr(props[i][2])
  ELSE g_udev_device_get_property(props, key, i + 1)

\* g_udev_device_get_property_as_boolean: "1" or, in any case, "true"
g_udev_device_get_property_as_boolean(props, key) ==
  LET value == g_udev_device_get_property(props, key, 1)
  IN  value # NULL /\ (Deref(value) = << "1" >>
                       \/ g_ascii_strdown(Deref(value)) = << "t","r","u","e" >>)

\* device: NULL or Ptr(udev properties)
is_shared_fs(device) ==
  device # NULL /\ g_udev_device_get_property_as_boolean(Deref(device), UDISKS_FILESYSTEM_SHARED)

\* The handler.  call = [block, caller_uid, fs_type, options]; builtin_keys and
\* override_keys: the key orders of the two hash tables; heap: what follows a
\* g_strdup'ed mode string on the heap; buf: the static buffer on entry.
\* The result holds the locals fsmo and options_to_use, the returned string (str,
\* NULL with error set) and the static buffer on return.
udisks_linux_calculate_mount_options(builtin, builtin_keys, file, override_keys, device, call, heap, buf) ==
  LET validate(fsmo, options_to_use, checked) ==
        [fsmo |-> fsmo, options_to_use |-> options_to_use, str |-> checked.str,
         error |-> checked.error, buf |-> checked.buf]
      prepend(fsmo, options_to_use) ==
        validate(fsmo, options_to_use,
                 validate_options(fsmo, options_to_use, 1, FIXED_OPTIONS,
                                  call.caller_uid, buf))
      compute(fsmo) ==
        prepend(fsmo, prepend_default_mount_options(fsmo, call.caller_uid, call.options,
                                                    is_shared_fs(device), heap))
  IN  compute(compute_mount_options_for_fs_type(builtin, builtin_keys, file,
                override_keys, device, call.block, g_ascii_strdown(call.fs_type)))

(***************************************************************************)
(* The inputs the daemon specification draws from                          *)
(***************************************************************************)
s_vfat == << "v", "f", "a", "t" >>

s_Ext4 == << "E", "x", "t", "4" >>

s_dev_sdb1 == << "/", "d", "e", "v", "/", "s", "d", "b", "1" >>

s_dev_by_label ==
  << "/", "d", "e", "v", "/", "d", "i", "s", "k", "/", "b", "y", "-", "l", "a", "b", "e",
     "l", "/", "K", "E", "Y" >>

k_vfat_defaults == << "v", "f", "a", "t", "_", "d", "e", "f", "a", "u", "l", "t", "s" >>

k_vfat_allow == << "v", "f", "a", "t", "_", "a", "l", "l", "o", "w" >>

k_VFAT_ALLOW_udev ==
  << "U", "D", "I", "S", "K", "S", "_", "M", "O", "U", "N", "T", "_", "O", "P", "T", "I",
     "O", "N", "S", "_", "V", "F", "A", "T", "_", "A", "L", "L", "O", "W" >>

v_bare_defaults ==
  << "u", "i", "d", ",", "g", "i", "d", ",", "s", "h", "o", "r", "t", "n", "a", "m", "e",
     "=", "m", "i", "x", "e", "d" >>

v_builtin_defaults ==
  << "u", "i", "d", "=", ",", "g", "i", "d", "=", ",", "s", "h", "o", "r", "t", "n", "a",
     "m", "e", "=", "m", "i", "x", "e", "d" >>

v_shortnames ==
  << "s", "h", "o", "r", "t", "n", "a", "m", "e", "=", "m", "i", "x", "e", "d", ",", "s",
     "h", "o", "r", "t", "n", "a", "m", "e", "=", "l", "o", "w", "e", "r" >>

v_ro == << "r", "o" >>

v_quoted_name == << "\"", "a", ",", "b", "\"" >>

v_quoted_name_allow ==
  << "\"", "a", ",", "b", "\"", ",", "s", "h", "o", "r", "t", "n", "a", "m", "e", "=", "m",
     "i", "x", "e", "d", ",", "s", "h", "o", "r", "t", "n", "a", "m", "e", "=", "l", "o",
     "w", "e", "r" >>

v_quoted_value ==
  << "i", "o", "c", "h", "a", "r", "s", "e", "t", "=", "\"", "u", ",", "x", "\"" >>

v_iocharset_allow ==
  << "i", "o", "c", "h", "a", "r", "s", "e", "t", ",", "s", "h", "o", "r", "t", "n", "a",
     "m", "e", "=", "m", "i", "x", "e", "d" >>

v_win95_allow ==
  << "s", "h", "o", "r", "t", "n", "a", "m", "e", "=", "m", "i", "x", "e", "d", ",", "s",
     "h", "o", "r", "t", "n", "a", "m", "e", "=", "w", "i", "n", "9", "5" >>

v_1 == << "1" >>

opt_lower_uid0 ==
  << "s", "h", "o", "r", "t", "n", "a", "m", "e", "=", "l", "o", "w", "e", "r", ",", "u",
     "i", "d", "=", "0" >>

opt_win95 == << "s", "h", "o", "r", "t", "n", "a", "m", "e", "=", "w", "i", "n", "9", "5" >>

opt_x_ro == << "x", "-", "a", "=", "b", ",", "r", "o" >>

\* one group of a key file
Group(name, keys) == [name |-> name, keys |-> keys]

\* built-in resource whose general defaults are the bare tokens uid and gid
BuiltinBareTokens ==
  << Group(MOUNT_OPTIONS_CONFIG_GROUP_DEFAULTS,
           << << MOUNT_OPTIONS_KEY_DEFAULTS, v_bare_defaults >>,
              << k_vfat_allow, v_shortnames >> >>) >>

\* built-in resource in the shipped style: uid= and gid= defaults with the self lists
BuiltinSelfLists ==
  << Group(MOUNT_OPTIONS_CONFIG_GROUP_DEFAULTS,
           << << MOUNT_OPTIONS_KEY_DEFAULTS, v_builtin_defaults >>,
              << MOUNT_OPTIONS_KEY_ALLOW, v_ro >>,
              << MOUNT_OPTIONS_KEY_ALLOW_UID_SELF, s_uid >>,
              << MOUNT_OPTIONS_KEY_ALLOW_GID_SELF, s_gid >>,
              << k_vfat_allow, v_shortnames >> >>) >>

BuiltinResources == { BuiltinBareTokens, BuiltinSelfLists }

\* a default whose quoted name holds a comma, allowed under that very name
FileQuotedName ==
  << Group(MOUNT_OPTIONS_CONFIG_GROUP_DEFAULTS,
           << << k_vfat_defaults, v_quoted_name >>,
              << k_vfat_allow, v_quoted_name_allow >> >>) >>

\* a device section with a default whose quoted value holds a comma
FileQuotedValue ==
  << Group(s_dev_by_label,
           << << k_vfat_defaults, v_quoted_value >>,
              << k_vfat_allow, v_iocharset_allow >> >>) >>

ConfigFiles == { NULL, Ptr(FileQuotedName), Ptr(FileQuotedValue) }

UdevNoHints == << >>

UdevSharedWin95 ==
  << << UDISKS_FILESYSTEM_SHARED, v_1 >>, << k_VFAT_ALLOW_udev, v_win95_allow >> >>

UdevProps == { Ptr(UdevNoHints), Ptr(UdevSharedWin95) }

TheBlock == [device |-> s_dev_sdb1, symlinks |-> << s_dev_by_label >>]

CallerUids == { 1000, 1001 }

FsTypes == { s_vfat, s_Ext4 }

\* the "options" entry of the caller's a{sv}: NULL when it has none
CallerOptions == { NULL, Ptr(opt_lower_uid0), Ptr(opt_win95), Ptr(opt_x_ro) }

Calls ==
  [block : { TheBlock }, caller_uid : CallerUids, fs_type : FsTypes, options : CallerOptions]

\* what may follow a g_strdup'ed string on the heap, up to the next NUL
HeapTails == { << >>, << "7" >> }

MaxRequests == 2

NoCall == NULL

NoResult == NULL

NoThreads == << >>

(***************************************************************************)
(* The daemon: one mount request at a time, while the override file and    *)
(* the device's udev properties change between calls                       *)
(***************************************************************************)
Init ==
  /\ builtin_opts \in { Deref(udisks_linux_mount_options_get_builtin(r)) :
                          r \in BuiltinResources }
  /\ config_file \in ConfigFiles
  /\ udev_props \in UdevProps
  /\ pc = "idle"
  /\ invocation = NoCall
  /\ h_o = NULL
  /\ h_fsmo_any = FSMountOptions0
  /\ h_fsmo = FSMountOptions0
  /\ h_options_to_use = << >>
  /\ h_ret = NoResult
  /\ supplementary_groups = supplementary_groups0
  /\ served = 0
  /\ env_changed = FALSE
  /\ thr = NoThreads

\* the administrator edits, creates or removes mount_options.conf
ChangeConfigFile ==
  /\ pc \in { "idle", "pending" }
  /\ \E f \in ConfigFiles \ { config_file } : config_file' = f
  /\ env_changed' = (env_changed \/ served > 0)
  /\ UNCHANGED << builtin_opts, udev_props, pc, invocation, h_o, h_fsmo_any, h_fsmo,
                  h_options_to_use, h_ret, supplementary_groups, served, thr >>

\* a udev event changes the device's properties
ChangeUdevProps ==
  /\ pc \in { "idle", "pending" }
  /\ \E u \in UdevProps \ { udev_props } : udev_props' = u
  /\ env_changed' = (env_changed \/ served > 0)
  /\ UNCHANGED << builtin_opts, config_file, pc, invocation, h_o, h_fsmo_any, h_fsmo,
                  h_options_to_use, h_ret, supplementary_groups, served, thr >>

\* a caller's mount request arrives
Receive ==
  /\ pc = "idle"
  /\ served < MaxRequests
  /\ \E call \in Calls : invocation' = Ptr(call)
  /\ pc' = "pending"
  /\ UNCHANGED << builtin_opts, config_file, udev_props, h_o, h_fsmo_any, h_fsmo,
                  h_options_to_use, h_ret, supplementary_groups, served, env_changed, thr >>

\* the key orders the parsed override file may list, {<< >>} when there is none
OverrideKeyOrders(file, block) ==
  LET overrides == mount_options_parse_config_file(file)
  IN  IF overrides = NULL THEN { << >> } ELSE KeyOrders(Deref(overrides), block)

\* udisks_linux_calculate_mount_options runs to its return; store: the built-in
\* table the call leaves behind
HandleCall(store) ==
  /\ pc = "pending"
  /\ \E builtin_keys \in KeyOrders(builtin_opts, Deref(invocation).block),
        override_keys \in OverrideKeyOrders(config_file, Deref(invocation).block),
        heap \in HeapTails :
       \E r \in { udisks_linux_calculate_mount_options(builtin_opts, builtin_keys,
                     config_file, override_keys, udev_props, Deref(invocation), heap,
                     supplementary_groups) } :
          /\ h_fsmo' = r.fsmo
          /\ h_options_to_use' = r.options_to_use
          /\ h_ret' = Ptr([str |-> r.str, error |-> r.error])
          /\ supplementary_groups' = r.buf
  /\ builtin_opts' = store
  /\ pc' = "done"
  /\ served' = served + 1
  /\ UNCHANGED << config_file, udev_props, invocation, h_o, h_fsmo_any, env_changed, thr >>

\* variant: the call leaves the tables parsed from the override file in the
\* built-in store
CalculateCaching ==
  HandleCall(IF mount_options_parse_config_file(config_file) = NULL THEN builtin_opts
             ELSE Deref(mount_options_parse_config_file(config_file)))

Calculate == HandleCall(builtin_opts)

\* the caller has its answer; the call's locals are freed
Return ==
  /\ pc = "done"
  /\ pc' = "idle"
  /\ invocation' = NoCall
  /\ h_fsmo' = FSMountOptions0
  /\ h_options_to_use' = << >>
  /\ h_ret' = NoResult
  /\ env_changed' = FALSE
  /\ UNCHANGED << builtin_opts, config_file, udev_props, h_o, h_fsmo_any,
                  supplementary_groups, served, thr >>

Next == ChangeConfigFile \/ ChangeUdevProps \/ Receive \/ Calculate \/ Return

Spec == Init /\ [][Next]_vars

(***************************************************************************)
(* Properties of the daemon specification                                  *)
(***************************************************************************)
\* the call being served and what it returned
TheCall == Deref(invocation)

TheReturn == Deref(h_ret)

\* candidate i of the call: its name, its value (NULL when absent), its verdict
CandidateName(i) == h_options_to_use[i][1]

CandidateValue(i) ==
  IF h_options_to_use[i][2] = VARIANT_NULL_STRING THEN NULL ELSE Ptr(h_options_to_use[i][2])

CandidateAccepted(i) ==
  is_mount_option_allowed(h_fsmo, CandidateName(i), CandidateValue(i), TheCall.caller_uid,
                          supplementary_groups0).ret

CandidatePasses(i) == ~has_comma(CandidateName(i)) /\ CandidateAccepted(i)

\* the text of candidate i: name or name=value
CandidateText(i) ==
  IF CandidateValue(i) = NULL THEN CandidateName(i)
  ELSE CandidateName(i) \o << "=" >> \o Deref(CandidateValue(i))

\* the first candidate that does not pass, 0 when all pass
FirstFailing ==
  IF \A i \in 1..Len(h_options_to_use) : CandidatePasses(i) THEN 0
  ELSE CHOOSE i \in 1..Len(h_options_to_use) :
         ~CandidatePasses(i) /\ \A j \in 1..(i - 1) : CandidatePasses(j)

\* the items of the caller's option string
CallerItems == IF TheCall.options = NULL THEN << >> ELSE g_strsplit(Deref(TheCall.options))

\* the candidates that come from the caller's option string are the last ones
CallerCandidates == (Len(h_options_to_use) - Len(CallerItems) + 1)..Len(h_options_to_use)

\* C1: every call returns one of two outcomes.  When every candidate, in order,
\* has a comma-free name and is accepted, it returns the fixed options followed
\* by every candidate in candidate order (one per defaults token, then one per
\* item of the caller's string, in the order given), each as ,name or
\* ,name=value; otherwise it returns no string and an error naming the first
\* failing candidate.
C1_TwoOutcomes ==
  pc = "done" =>
    /\ Len(h_options_to_use) = Len(Entries(h_fsmo.defaults)) + Len(CallerItems)
    /\ \A i \in CallerCandidates :
         CandidateText(i) = CallerItems[i - (Len(h_options_to_use) - Len(CallerItems))]
    /\ IF FirstFailing = 0
         THEN /\ TheReturn.error = NULL
              /\ TheReturn.str =
                   Ptr(FIXED_OPTIONS
                       \o Flatten([i \in 1..Len(h_options_to_use) |->
                                     << "," >> \o CandidateText(i)]))
         ELSE /\ TheReturn.str = NULL
              /\ TheReturn.error # NULL
              /\ Deref(TheReturn.error).key = CandidateName(FirstFailing)

\* a call succeeded with defaults and caller options among its candidates
C1_Witness ==
  /\ pc = "done"
  /\ TheReturn.str # NULL
  /\ Len(CallerItems) >= 1
  /\ Len(h_options_to_use) >= 4

\* a call failed at a candidate that is not the first one
C1_WitnessLateFailure == pc = "done" /\ TheReturn.str = NULL /\ FirstFailing > 1

\* the returned string cut at every comma
ReturnedTokens == g_strsplit(Deref(TheReturn.str))

FixedTokens == g_strsplit(FIXED_OPTIONS)

\* no name and no value that comes from the caller's option string holds a comma
CallerPartsCommaFree ==
  \A i \in CallerCandidates :
    /\ ~has_comma(CandidateName(i))
    /\ CandidateValue(i) = NULL \/ ~has_comma(Deref(CandidateValue(i)))

\* C2 as stated: every returned string, cut at every comma, is the three fixed
\* tokens followed only by tokens that are each an accepted candidate, and no
\* caller-supplied name or value in it holds a comma.
C2_EveryTokenValidated ==
  (pc = "done" /\ TheReturn.str # NULL) =>
    /\ Len(ReturnedTokens) >= 3
    /\ SubSeq(ReturnedTokens, 1, 3) = FixedTokens
    /\ \A t \in 4..Len(ReturnedTokens) :
         \E i \in 1..Len(h_options_to_use) :
           ReturnedTokens[t] = CandidateText(i) /\ CandidatePasses(i)
    /\ CallerPartsCommaFree

\* C2: every candidate written to a returned string was accepted under a
\* comma-free name, and no caller-supplied name or value holds a comma; the
\* string cut at every comma gives back the fixed tokens and the candidates
\* whenever no candidate's value (a default's value taken from the policy)
\* holds a comma.
C2_EveryCandidateValidated ==
  (pc = "done" /\ TheReturn.str # NULL) =>
    /\ \A i \in 1..Len(h_options_to_use) : CandidatePasses(i)
    /\ CallerPartsCommaFree
    /\ (\A i \in 1..Len(h_options_to_use) : ~has_comma(CandidateText(i))) =>
         /\ Len(ReturnedTokens) = 3 + Len(h_options_to_use)
         /\ SubSeq(ReturnedTokens, 1, 3) = FixedTokens
         /\ \A i \in 1..Len(h_options_to_use) : ReturnedTokens[3 + i] = CandidateText(i)

\* a string was returned that holds a default whose quoted value has a comma
C2_Witness ==
  /\ pc = "done"
  /\ TheReturn.str # NULL
  /\ \E i \in 1..Len(h_options_to_use) : has_comma(CandidateText(i))

\* the request of the end-to-end scenario, served from the given built-in resource
Scenario(resource) ==
  /\ pc = "done"
  /\ builtin_opts = Deref(udisks_linux_mount_options_get_builtin(resource))
  /\ config_file = NULL
  /\ udev_props = Ptr(UdevNoHints)
  /\ TheCall = [block |-> TheBlock, caller_uid |-> 1000, fs_type |-> s_vfat,
                options |-> NULL]

s_scenario_result ==
  FIXED_OPTIONS
  \o << ",", "u", "i", "d", "=", "1", "0", "0", "0", ",", "g", "i", "d", "=", "1", "0",
        "0", "0", ",", "s", "h", "o", "r", "t", "n", "a", "m", "e", "=", "m", "i", "x",
        "e", "d" >>

\* C3 as stated: with the built-in general defaults uid, gid, shortname=mixed
\* the scenario returns uhelper=udisks2,nodev,nosuid,uid=1000,gid=1000,shortname=mixed.
C3_ScenarioBareTokens ==
  Scenario(BuiltinBareTokens) =>
    TheReturn.error = NULL /\ TheReturn.str = Ptr(s_scenario_result)

\* C3: the scenario returns that string when the built-in general defaults are
\* uid=, gid=, shortname=mixed and uid, gid are on the self lists; with the
\* bare tokens uid and gid it fails, the bare candidate uid being not allowed.
C3_ScenarioResult ==
  /\ Scenario(BuiltinSelfLists) =>
       TheReturn.error = NULL /\ TheReturn.str = Ptr(s_scenario_result)
  /\ Scenario(BuiltinBareTokens) =>
       /\ TheReturn.str = NULL
       /\ TheReturn.error = g_set_error(UDISKS_ERROR_OPTION_NOT_PERMITTED,
                                        MSG_NOT_ALLOWED, s_uid, NULL)

\* the scenario has been served with the bare tokens as built-in defaults
C3_Witness == Scenario(BuiltinBareTokens) /\ h_options_to_use[1] = << s_uid, VARIANT_NULL_STRING >>

\* the scenario has been served with uid= and gid= as built-in defaults
C3_WitnessSelfLists == Scenario(BuiltinSelfLists) /\ TheReturn.str # NULL

C4_WitnessCallerString ==
  /\ pc = "done"
  /\ TheCall.options = Ptr(opt_lower_uid0)
  /\ FirstFailing = Len(h_options_to_use)
  /\ CandidateName(FirstFailing) = s_uid

\* the effective records the resolver can give the call from the built-in store,
\* the override file and the udev properties as they are now
FreshRecords ==
  { compute_mount_options_for_fs_type(builtin_opts, builtin_keys, config_file,
                                      override_keys, udev_props, TheCall.block,
                                      g_ascii_strdown(TheCall.fs_type)) :
      builtin_keys \in KeyOrders(builtin_opts, TheCall.block),
      override_keys \in OverrideKeyOrders(config_file, TheCall.block) }

v_a == << "a" >>

v_b == << "b" >>

v_x == << "x" >>

v_y_x == << "y", ",", "x" >>

v_y_y == << "y", ",", "y" >>

v_empty == << >>

v_unparsable == << "a", ",", ",", "b" >>

\* the groups an origin may hold for the scope that applies
OriginGroups ==
  { Group(MOUNT_OPTIONS_CONFIG_GROUP_DEFAULTS,
          << << MOUNT_OPTIONS_KEY_ALLOW, v_a >>, << k_vfat_allow, v_a >> >>),
    Group(MOUNT_OPTIONS_CONFIG_GROUP_DEFAULTS,
          << << MOUNT_OPTIONS_KEY_ALLOW, v_b >>, << k_vfat_allow, v_b >> >>),
    Group(MOUNT_OPTIONS_CONFIG_GROUP_DEFAULTS,
          << << MOUNT_OPTIONS_KEY_DEFAULTS, v_y_x >>, << k_vfat_defaults, v_x >> >>),
    Group(MOUNT_OPTIONS_CONFIG_GROUP_DEFAULTS,
          << << MOUNT_OPTIONS_KEY_DEFAULTS, v_x >>, << k_vfat_allow, v_y_x >> >>),
    Group(MOUNT_OPTIONS_CONFIG_GROUP_DEFAULTS,
          << << MOUNT_OPTIONS_KEY_DEFAULTS, v_y_y >>, << k_vfat_defaults, v_x >> >>),
    Group(MOUNT_OPTIONS_CONFIG_GROUP_DEFAULTS,
          << << MOUNT_OPTIONS_KEY_ALLOW, v_empty >>, << k_vfat_allow, v_empty >> >>),
    Group(MOUNT_OPTIONS_CONFIG_GROUP_DEFAULTS,
          << << MOUNT_OPTIONS_KEY_ALLOW, v_unparsable >>,
             << k_vfat_defaults, v_unparsable >> >>) }

MaxOrigins == 3

MergeInit ==
  /\ builtin_opts = g_hash_table_new
  /\ config_file = NULL
  /\ udev_props = NULL
  /\ pc = "resolve"
  /\ invocation = NoCall
  /\ h_o = NULL
  /\ h_fsmo_any = FSMountOptions0
  /\ h_fsmo = FSMountOptions0
  /\ h_options_to_use = << >>
  /\ h_ret = NoResult
  /\ supplementary_groups = supplementary_groups0
  /\ served = 0
  /\ env_changed = FALSE
  /\ thr = NoThreads

\* one origin's group is parsed and overrides the two accumulators
ApplyOrigin ==
  /\ pc = "resolve"
  /\ served < MaxOrigins
  /\ \E g \in OriginGroups :
       \E table \in { mount_options_parse_group(g) } :
         \E acc \in { override_level(Ptr(table), s_vfat,
                         [fsmo |-> h_fsmo, fsmo_any |-> h_fsmo_any, changed |-> FALSE]) } :
           /\ h_o' = Ptr(table)
           /\ h_fsmo' = acc.fsmo
           /\ h_fsmo_any' = acc.fsmo_any
  /\ served' = served + 1
  /\ UNCHANGED << builtin_opts, config_file, udev_props, pc, invocation,
                  h_options_to_use, h_ret, supplementary_groups, env_changed, thr >>

\* "any" is merged into the fstype-specific options
AppendAny ==
  /\ pc = "resolve"
  /\ pc' = "merged"
  /\ h_fsmo' = append_fs_mount_options(Ptr(h_fsmo_any), h_fsmo)
  /\ UNCHANGED << builtin_opts, config_file, udev_props, invocation, h_o, h_fsmo_any,
                  h_options_to_use, h_ret, supplementary_groups, served, env_changed, thr >>

MergeNext == ApplyOrigin \/ AppendAny

MergeSpec == MergeInit /\ [][MergeNext]_vars

\* member m of the record the origin table holds under key, NULL when it holds none
OriginMember(table, key, m) ==
  IF g_hash_table_lookup(Deref(table), key) = NULL THEN NULL
  ELSE Deref(g_hash_table_lookup(Deref(table), key))[m]

\* a step that applies the origin h_o' to the accumulators
IsOverrideStep == pc = "resolve" /\ pc' = "resolve" /\ served' = served + 1

\* C5 as stated: the override step replaces a field of an accumulator by the
\* origin's list exactly when the origin defines the field with a non-empty
\* list, and leaves it untouched otherwise.
C5_ReplaceWhenNonEmpty ==
  [][IsOverrideStep =>
       \A m \in Members :
         /\ Entries(h_fsmo'[m]) =
              IF Len(Entries(OriginMember(h_o', s_vfat, m))) > 0
                THEN Entries(OriginMember(h_o', s_vfat, m)) ELSE Entries(h_fsmo[m])
         /\ Entries(h_fsmo_any'[m]) =
              IF Len(Entries(OriginMember(h_o', MOUNT_OPTIONS_CONFIG_GROUP_DEFAULTS, m))) > 0
                THEN Entries(OriginMember(h_o', MOUNT_OPTIONS_CONFIG_GROUP_DEFAULTS, m))
                ELSE Entries(h_fsmo_any[m])]_vars

\* C5: the override step replaces a field of an accumulator by the origin's
\* list exactly when the origin holds a list for the field, which it does for a
\* key whose value parses, the empty value included (the field then becomes
\* the empty list); it leaves the field untouched when the origin has no list,
\* the key being absent or its value unparsable.  No entry of the earlier
\* origin survives a replacement.
C5_ReplaceWhenDefined ==
  [][IsOverrideStep =>
       \A m \in Members :
         /\ h_fsmo'[m] =
              IF OriginMember(h_o', s_vfat, m) # NULL
                THEN OriginMember(h_o', s_vfat, m) ELSE h_fsmo[m]
         /\ h_fsmo_any'[m] =
              IF OriginMember(h_o', MOUNT_OPTIONS_CONFIG_GROUP_DEFAULTS, m) # NULL
                THEN OriginMember(h_o', MOUNT_OPTIONS_CONFIG_GROUP_DEFAULTS, m)
                ELSE h_fsmo_any[m]]_vars

\* a later origin whose allow key has the empty value has emptied the field
C5_Witness ==
  /\ pc = "resolve"
  /\ served >= 2
  /\ OriginMember(h_o, MOUNT_OPTIONS_CONFIG_GROUP_DEFAULTS, "allow") = Ptr(<< >>)
  /\ h_fsmo_any.allow = Ptr(<< >>)
  /\ h_fsmo.allow = Ptr(<< >>)

\* a later origin whose allow key does not parse has left allow [a] in place
C5_WitnessUnparsable ==
  /\ pc = "resolve"
  /\ served >= 2
  /\ g_hash_table_lookup(Deref(h_o), MOUNT_OPTIONS_CONFIG_GROUP_DEFAULTS) # NULL
  /\ OriginMember(h_o, MOUNT_OPTIONS_CONFIG_GROUP_DEFAULTS, "allow") = NULL
  /\ h_fsmo_any.allow = Ptr(<< v_a >>)

\* the entries of general that specific does not hold, in general's order
NotIn(general, specific) ==
  SelectSeq(general, LAMBDA s : \A i \in 1..Len(specific) : specific[i] # s)

\* C6: the merge leaves in each field the entries of the specific accumulator
\* in their order, followed by exactly those entries of the general accumulator
\* that the specific one does not hold, in the general accumulator's order.
C6_SpecificThenGeneral ==
  [][(pc = "resolve" /\ pc' = "merged") =>
       \A m \in Members :
         Entries(h_fsmo'[m]) =
           Entries(h_fsmo[m]) \o NotIn(Entries(h_fsmo_any[m]), Entries(h_fsmo[m]))]_vars

\* general defaults [y, x] were merged into specific defaults that begin with x
C6_Witness ==
  /\ pc = "merged"
  /\ h_fsmo_any.defaults = Ptr(<< << "y" >>, v_x >>)
  /\ h_fsmo.defaults = Ptr(<< v_x, << "y" >> >>)

(***************************************************************************)
(* The allow-list evaluator alone: one option of a caller is checked       *)
(* against a record that has uid on its allow_uid_self list                *)
(***************************************************************************)
MaxValueLen == 3

ValueAlphabet == { "0", "1", "+", "-", " ", "a" }

\* every string over the alphabet up to the length bound
ShortValues == UNION { [1..k -> ValueAlphabet] : k \in 0..MaxValueLen }

v_uid_1001 == << "u", "i", "d", "=", "1", "0", "0", "1" >>

LongValues ==
  { << "1", "0", "0", "0" >>, << "1", "0", "0", "1" >>, << "a", "b", "c" >>,
    << "+", "1", "0", "0", "0" >>, << " ", "1", "0", "0", "0" >>,
    << "1", "0", "0", "0", " " >>, << "0", "1", "0", "0", "0" >>,
    << "4", "2", "9", "4", "9", "6", "8", "2", "9", "6" >>,
    << "-", "4", "2", "9", "4", "9", "6", "6", "2", "9", "6" >>,
    << "9", "2", "2", "3", "3", "7", "2", "0", "3", "6", "8", "5", "4", "7", "7", "5", "8",
       "0", "8" >> }

\* the value the option comes with: NULL when it has none
OptionValues == { NULL } \cup { Ptr(v) : v \in ShortValues \cup LongValues }

UidSelfRecords ==
  { [FSMountOptions0 EXCEPT !.allow_uid_self = Ptr(<< s_uid >>)],
    [FSMountOptions0 EXCEPT !.allow_uid_self = Ptr(<< s_uid >>),
                            !.allow = Ptr(<< v_uid_1001, v_ro >>)] }

AllowCallerUids == { 1, 1000 }

AllowInit ==
  /\ builtin_opts = g_hash_table_new
  /\ config_file = NULL
  /\ udev_props = NULL
  /\ pc = "call"
  /\ invocation \in { Ptr([option |-> s_uid, value |-> v, caller_uid |-> u]) :
                         v \in OptionValues, u \in AllowCallerUids }
  /\ h_o = NULL
  /\ h_fsmo_any = FSMountOptions0
  /\ h_fsmo \in UidSelfRecords
  /\ h_options_to_use = << >>
  /\ h_ret = NoResult
  /\ supplementary_groups = supplementary_groups0
  /\ served = 0
  /\ env_changed = FALSE
  /\ thr = NoThreads

\* is_mount_option_allowed runs on the option
CheckOption ==
  /\ pc = "call"
  /\ pc' = "returned"
  /\ \E r \in { is_mount_option_allowed(h_fsmo, Deref(invocation).option,
                                          Deref(invocation).value,
                                          Deref(invocation).caller_uid,
                                          supplementary_groups) } :
       /\ h_ret' = Ptr(r.ret)
       /\ supplementary_groups' = r.buf
  /\ UNCHANGED << builtin_opts, config_file, udev_props, invocation, h_o, h_fsmo_any,
                  h_fsmo, h_options_to_use, served, env_changed, thr >>

AllowNext == CheckOption

AllowSpec == AllowInit /\ [][AllowNext]_vars

\* the value is decimal digits only and, as a mathematical integer, equals uid
IsDecimalOf(value, uid) ==
  /\ Len(value) > 0
  /\ \A i \in 1..Len(value) : IsDigit(value[i])
  /\ StripZeros(value) = StripZeros(fmt_u(uid))

\* the option's name is on allow_uid_self and its exact name=value is not in allow
UidSelfDecides ==
  /\ g_strv_contains(Entries(h_fsmo.allow_uid_self), Deref(invocation).option)
  /\ \/ Deref(invocation).value = NULL
     \/ ~g_strv_contains(Entries(h_fsmo.allow),
                          OptionEqValue(Deref(invocation).option,
                                        Deref(Deref(invocation).value)))

\* C7 as stated: an option on allow_uid_self whose exact token is not in allow
\* is allowed if and only if its value is present, non-empty, decimal digits
\* only and, as a mathematical integer, equal to the caller's uid.
C7_UidSelfExact ==
  (pc = "returned" /\ UidSelfDecides) =>
    (Deref(h_ret) <=> /\ Deref(invocation).value # NULL
                      /\ IsDecimalOf(Deref(Deref(invocation).value),
                                      Deref(invocation).caller_uid))

\* an option was allowed whose value is not the caller's uid in digits
C7_Witness ==
  /\ pc = "returned"
  /\ UidSelfDecides
  /\ Deref(h_ret)
  /\ ~IsDecimalOf(Deref(Deref(invocation).value), Deref(invocation).caller_uid)

(***************************************************************************)
(* The default synthesizer alone: the candidates of a record whose only    *)
(* default is a mode                                                       *)
(***************************************************************************)
OctalDigits == { "0", "1", "2", "3", "4", "5", "6", "7" }

\* four-character octal modes
ModeValues ==
  { << "0", owner, group, other >> :
      owner \in OctalDigits, group \in { "0", "7" }, other \in { "0", "5", "7" } }

v_mode_0755 == << "m", "o", "d", "e", "=", "0", "7", "5", "5" >>

\* records with the default mode=<value>, with and without an allow list that
\* names one mode explicitly
ModeRecords ==
  { [FSMountOptions0 EXCEPT !.defaults = Ptr(<< s_mode \o << "=" >> \o v >>), !.allow = a] :
      v \in ModeValues, a \in { NULL, Ptr(<< v_mode_0755 >>) } }

UdevShared == << << UDISKS_FILESYSTEM_SHARED, v_1 >> >>

PrependInit ==
  /\ builtin_opts = g_hash_table_new
  /\ config_file = NULL
  /\ udev_props \in { Ptr(UdevNoHints), Ptr(UdevShared) }
  /\ pc = "call"
  /\ invocation = Ptr([caller_uid |-> 1000, options |-> NULL])
  /\ h_o = NULL
  /\ h_fsmo_any = FSMountOptions0
  /\ h_fsmo \in ModeRecords
  /\ h_options_to_use = << >>
  /\ h_ret = NoResult
  /\ supplementary_groups = supplementary_groups0
  /\ served = 0
  /\ env_changed = FALSE
  /\ thr = NoThreads

\* prepend_default_mount_options runs on the record
Prepend ==
  /\ pc = "call"
  /\ pc' = "returned"
  /\ \E heap \in HeapTails :
       h_options_to_use' =
         prepend_default_mount_options(h_fsmo, Deref(invocation).caller_uid,
                                       Deref(invocation).options, is_shared_fs(udev_props),
                                       heap)
  /\ UNCHANGED << builtin_opts, config_file, udev_props, invocation, h_o, h_fsmo_any,
                  h_fsmo, h_ret, supplementary_groups, served, env_changed, thr >>

PrependNext == Prepend

PrependSpec == PrependInit /\ [][PrependNext]_vars

\* the record's only default and the value after its mode=
TheDefault == Deref(h_fsmo.defaults)[1]

TheModeValue == SubSeq(TheDefault, 6, Len(TheDefault))

\* the shared-location rule applies: shared_fs holds and the default
\* mode=<four octal digits> is not listed in allow
SharedModeApplies ==
  /\ pc = "returned"
  /\ is_shared_fs(udev_props)
  /\ Len(TheModeValue) = 4
  /\ ~g_strv_contains(Entries(h_fsmo.allow), TheDefault)

OwnerDigit == DigitVal(TheModeValue[2])

\* the digit given to group and others, when they got the same decimal digit
SharedDigit == DigitVal(h_options_to_use[1][2][3])

\* the candidate is mode=<first two characters><d><d> for a decimal digit d
SharedModeShape ==
  /\ Len(h_options_to_use) = 1
  /\ h_options_to_use[1][1] = s_mode
  /\ Len(h_options_to_use[1][2]) = 4
  /\ SubSeq(h_options_to_use[1][2], 1, 2) = SubSeq(TheModeValue, 1, 2)
  /\ IsDigit(h_options_to_use[1][2][3])
  /\ h_options_to_use[1][2][4] = h_options_to_use[1][2][3]

\* C8 as stated: the group and other digit of the synthesized mode is
\* max(owner digit - 2, 4), at least 4 and at most the owner digit minus 2,
\* for every owner digit 0..7.
C8_AtMostOwnerMinusTwo ==
  SharedModeApplies =>
    /\ SharedModeShape
    /\ SharedDigit = MAX(OwnerDigit - 2, 4)
    /\ SharedDigit >= 4
    /\ SharedDigit <= OwnerDigit - 2

\* C8: the synthesized mode keeps the first two characters and gives group and
\* others the digit max(owner digit - 2, 4): the owner digit minus 2 for the
\* owner digits 6 and 7 (7 gives 5), and 4, which is more than the owner digit
\* minus 2, for the owner digits 0..5.
C8_SharedModeDigit ==
  SharedModeApplies =>
    /\ SharedModeShape
    /\ SharedDigit = MAX(OwnerDigit - 2, 4)
    /\ OwnerDigit >= 6 => SharedDigit = OwnerDigit - 2
    /\ OwnerDigit <= 5 => SharedDigit = 4 /\ SharedDigit > OwnerDigit - 2

\* a shared mode was synthesized for an owner digit below 6
C8_Witness == SharedModeApplies /\ OwnerDigit = 3 /\ SharedDigit = 4

\* a shared mode was synthesized for the owner digit 7
C8_WitnessOwnerSeven == SharedModeApplies /\ OwnerDigit = 7 /\ SharedDigit = 5

(***************************************************************************)
(* Concurrent requests: each thread serves a request whose candidate       *)
(* gid=<gid> is decided by allow_gid_self, and so runs is_uid_in_gid; the  *)
(* threads share the function's static buffer                              *)
(***************************************************************************)
MaxThreads == 2

Threads == 1..MaxThreads

\* what a thread is asked: is caller uid a member of group gid
GidRequests ==
  { [uid |-> u, gid |-> U32(g)] : u \in CallerUids, g \in { 100, 6 } }

\* a thread at the entry of is_uid_in_gid
ThreadAt(request) ==
  [uid |-> request.uid, gid |-> request.gid, at |-> "get_user_info",
   num_supplementary_groups |-> NUM_SUPPLEMENTARY_GROUPS, n |-> 0, ret |-> FALSE]

ConcInit ==
  /\ builtin_opts = g_hash_table_new
  /\ config_file = NULL
  /\ udev_props = NULL
  /\ pc = "threads"
  /\ invocation = NoCall
  /\ h_o = NULL
  /\ h_fsmo_any = FSMountOptions0
  /\ h_fsmo = FSMountOptions0
  /\ h_options_to_use = << >>
  /\ h_ret = NoResult
  /\ supplementary_groups = supplementary_groups0
  /\ served = 0
  /\ env_changed = FALSE
  /\ thr \in { [t \in Threads |-> ThreadAt(q[t])] : q \in [Threads -> GidRequests] }

\* udisks_daemon_util_get_user_info and the comparison with the primary group
GetUserInfo(t) ==
  /\ thr[t].at = "get_user_info"
  /\ thr' = [thr EXCEPT ![t] =
       IF udisks_daemon_util_get_user_info(thr[t].uid) = NULL
         THEN [@ EXCEPT !.at = "done", !.ret = FALSE]
       ELSE IF U32(Deref(udisks_daemon_util_get_user_info(thr[t].uid)).gid) = thr[t].gid
         THEN [@ EXCEPT !.at = "done", !.ret = TRUE]
       ELSE [@ EXCEPT !.at = "getgrouplist"]]
  /\ UNCHANGED << builtin_opts, config_file, udev_props, pc, invocation, h_o, h_fsmo_any,
                  h_fsmo, h_options_to_use, h_ret, supplementary_groups, served,
                  env_changed >>

\* getgrouplist fills the static buffer
GetGroupList(t) ==
  /\ thr[t].at = "getgrouplist"
  /\ \E groups \in { getgrouplist(Deref(udisks_daemon_util_get_user_info(thr[t].uid)),
                                    thr[t].num_supplementary_groups) } :
       IF groups = NULL
         THEN /\ thr' = [thr EXCEPT ![t].at = "done", ![t].ret = FALSE]
              /\ UNCHANGED supplementary_groups
         ELSE /\ supplementary_groups' = write_groups(supplementary_groups, Deref(groups))
              /\ thr' = [thr EXCEPT ![t].at = "scan", ![t].n = 0,
                                     ![t].num_supplementary_groups = Len(Deref(groups))]
  /\ UNCHANGED << builtin_opts, config_file, udev_props, pc, invocation, h_o, h_fsmo_any,
                  h_fsmo, h_options_to_use, h_ret, served, env_changed >>

\* one turn of the loop over the static buffer
ScanGroups(t) ==
  /\ thr[t].at = "scan"
  /\ thr' = [thr EXCEPT ![t] =
       IF thr[t].n >= thr[t].num_supplementary_groups
         THEN [@ EXCEPT !.at = "done", !.ret = FALSE]
       ELSE IF U32(supplementary_groups[thr[t].n + 1]) = thr[t].gid
         THEN [@ EXCEPT !.at = "done", !.ret = TRUE]
       ELSE [@ EXCEPT !.n = @ + 1]]
  /\ UNCHANGED << builtin_opts, config_file, udev_props, pc, invocation, h_o, h_fsmo_any,
                  h_fsmo, h_options_to_use, h_ret, supplementary_groups, served,
                  env_changed >>

ConcNext == \E t \in Threads : GetUserInfo(t) \/ GetGroupList(t) \/ ScanGroups(t)

ConcSpec == ConcInit /\ [][ConcNext]_vars

\* C9 as stated: in every interleaving each computation returns what it
\* returns when run alone.
C9_AsWhenRunAlone ==
  \A t \in Threads :
    thr[t].at = "done" =>
      thr[t].ret = is_uid_in_gid(thr[t].uid, thr[t].gid, supplementary_groups0).ret

\* a caller was found to be in a group it is not in: the buffer it scanned had
\* been filled by another thread
C9_Witness ==
  \E t \in Threads :
    /\ thr[t].at = "done"
    /\ thr[t].ret
    /\ ~is_uid_in_gid(thr[t].uid, thr[t].gid, supplementary_groups0).ret

(***************************************************************************)
(* The caller's option string: calls on a device without policy, whose     *)
(* option strings are all the short strings over a small alphabet          *)
(***************************************************************************)
MaxOptionLen == 4

OptionAlphabet == { "x", "-", "=", ",", "SOH" }

OptionStrings == UNION { [1..k -> OptionAlphabet] : k \in 0..MaxOptionLen }

RoundTripInit ==
  /\ builtin_opts = g_hash_table_new
  /\ config_file = NULL
  /\ udev_props = Ptr(UdevNoHints)
  /\ pc = "pending"
  /\ invocation \in { Ptr([block |-> TheBlock, caller_uid |-> 1000, fs_type |-> s_vfat,
                           options |-> Ptr(s)]) : s \in OptionStrings }
  /\ h_o = NULL
  /\ h_fsmo_any = FSMountOptions0
  /\ h_fsmo = FSMountOptions0
  /\ h_options_to_use = << >>
  /\ h_ret = NoResult
  /\ supplementary_groups = supplementary_groups0
  /\ served = 0
  /\ env_changed = FALSE
  /\ thr = NoThreads

RoundTripNext == Calculate

RoundTripSpec == RoundTripInit /\ [][RoundTripNext]_vars

\* the (name, value) pair an item denotes: the value is absent (NULL) when the
\* item has no "=", and present otherwise, be it empty
PairOf(item) ==
  IF strchr(item, "=") = 0 THEN << item, NULL >>
  ELSE << SubSeq(item, 1, strchr(item, "=") - 1),
          Ptr(SubSeq(item, strchr(item, "=") + 1, Len(item))) >>

PairsOf(items) == [i \in 1..Len(items) |-> PairOf(items[i])]

\* the option tail of a result: what follows the fixed options and their comma
OptionTail(str) == SubSeq(str, Len(FIXED_OPTIONS) + 2, Len(str))

\* C11: when the call succeeds, the option tail of the result denotes exactly
\* the (name, value-or-absent) pairs of the caller's option string, in order,
\* an absent value being distinct from every present one.
C11_RoundTrip ==
  (pc = "done" /\ TheReturn.str # NULL)
    => PairsOf(g_strsplit(OptionTail(Deref(TheReturn.str)))) = PairsOf(CallerItems)

\* a successful call whose option string carries a present value
C11_Witness ==
  /\ pc = "done"
  /\ TheReturn.str # NULL
  /\ \E i \in 1..Len(CallerItems) : PairOf(CallerItems[i])[2] # NULL

\* a successful call whose caller sent the value "\1" and got the bare name back
C11_WitnessSentinel ==
  /\ pc = "done"
  /\ TheReturn.str # NULL
  /\ PairsOf(CallerItems) = << << << "x", "-" >>, Ptr(VARIANT_NULL_STRING) >> >>
  /\ OptionTail(Deref(TheReturn.str)) = << "x", "-" >>

(***************************************************************************)
(* The allow-list evaluator alone: one option of caller 1000 is checked    *)
(* against records that list it on any combination of the three lists      *)
(***************************************************************************)
s_x_uid == << "x", "-", "u", "i", "d" >>

RuleOptions == { s_uid, s_x_uid }

\* absent, empty, the caller's uid and primary group, another user's, and a
\* supplementary group of the caller
RuleValues ==
  { NULL, Ptr(<< >>), Ptr(<< "1", "0", "0", "0" >>), Ptr(<< "1", "0", "0", "1" >>),
    Ptr(<< "1", "0", "0" >>) }

\* the allow entries that mention the option
RuleTokens(option) ==
  { option, option \o << "=" >>, OptionEqValue(option, << "1", "0", "0", "0" >>),
    OptionEqValue(option, << "1", "0", "0", "1" >>) }

RuleRecords(option) ==
  { [defaults |-> NULL, allow |-> a, allow_uid_self |-> u, allow_gid_self |-> g] :
      a \in { NULL } \cup { Ptr(SetToSeq(S)) : S \in SUBSET RuleTokens(option) },
      u \in { NULL, Ptr(<< option >>) },
      g \in { NULL, Ptr(<< option >>) } }

RuleInit ==
  /\ builtin_opts = g_hash_table_new
  /\ config_file = NULL
  /\ udev_props = NULL
  /\ pc = "call"
  /\ \E option \in RuleOptions :
       /\ invocation \in { Ptr([option |-> option, value |-> v, caller_uid |-> 1000]) :
                              v \in RuleValues }
       /\ h_fsmo \in RuleRecords(option)
  /\ h_o = NULL
  /\ h_fsmo_any = FSMountOptions0
  /\ h_options_to_use = << >>
  /\ h_ret = NoResult
  /\ supplementary_groups = supplementary_groups0
  /\ served = 0
  /\ env_changed = FALSE
  /\ thr = NoThreads

RuleNext == CheckOption

RuleSpec == RuleInit /\ [][RuleNext]_vars

\* the option under check and its lists
TheOption == Deref(invocation).option

TheValue == Deref(invocation).value

OnAllow(token) == g_strv_contains(Entries(h_fsmo.allow), token)

OnUidSelf == g_strv_contains(Entries(h_fsmo.allow_uid_self), TheOption)

OnGidSelf == g_strv_contains(Entries(h_fsmo.allow_gid_self), TheOption)

ExactOnAllow ==
  TheValue # NULL /\ Deref(TheValue) # << >> /\ OnAllow(OptionEqValue(TheOption, Deref(TheValue)))

\* the value is the caller's uid, or one of the caller's groups, in decimal
IsCallerUid == TheValue # NULL /\ Deref(TheValue) = fmt_u(Deref(invocation).caller_uid)

IsCallerGid ==
  /\ TheValue # NULL
  /\ \E n \in 1..Len(PASSWD[Deref(invocation).caller_uid].groups) :
       Deref(TheValue) = fmt_u(PASSWD[Deref(invocation).caller_uid].groups[n])

\* C12: the answer is the verdict of the first applicable rule, in the order
\* (1) exact name=value on allow with a non-empty value: allowed, (2) name on
\* allow_uid_self: the uid check, (3) name on allow_gid_self: the gid check,
\* (4) name= or name on allow: allowed, (5) name starts with x-: allowed,
\* (6) rejected.
C12_FirstApplicableRule ==
  pc = "returned" =>
    (Deref(h_ret) <=>
       IF ExactOnAllow THEN TRUE
       ELSE IF OnUidSelf THEN IsCallerUid
       ELSE IF OnGidSelf THEN IsCallerGid
       ELSE IF OnAllow(TheOption \o << "=" >>) \/ OnAllow(TheOption) THEN TRUE
       ELSE g_str_has_prefix(TheOption, << "x", "-" >>))

\* an x- option on allow (bare and with =) and on allow_uid_self is rejected
\* because its value is another user's uid
C12_Witness ==
  /\ pc = "returned"
  /\ ~Deref(h_ret)
  /\ OnUidSelf
  /\ ~IsCallerUid
  /\ OnAllow(TheOption \o << "=" >>)
  /\ OnAllow(TheOption)
  /\ g_str_has_prefix(TheOption, << "x", "-" >>)

\* an exact entry on allow permits a value the identity lists would reject
C12_WitnessExact ==
  /\ pc = "returned"
  /\ Deref(h_ret)
  /\ ExactOnAllow
  /\ OnUidSelf
  /\ OnGidSelf
  /\ ~IsCallerUid
  /\ ~IsCallerGid

(***************************************************************************)
(* The resolver on whole inputs: a built-in table and an override file     *)
(* with a general and a device group each, and the device's udev hints     *)
(***************************************************************************)
\* what a scope of an origin may say, every token naming the scope it is from:
\* nothing, defaults for both accumulators, allow for both accumulators, or
\* defaults for the general one and an empty allow for the fstype
ScopeKeys(tag, prefix) ==
  { << >>,
    << << prefix \o MOUNT_OPTIONS_KEY_DEFAULTS, tag >>, << prefix \o k_vfat_defaults, tag >> >>,
    << << prefix \o MOUNT_OPTIONS_KEY_ALLOW, tag >>, << prefix \o k_vfat_allow, tag >> >>,
    << << prefix \o MOUNT_OPTIONS_KEY_DEFAULTS, tag >>, << prefix \o k_vfat_allow, v_empty >> >> }

\* built-in resources: the general group and the group of the device file
ResolveBuiltins ==
  { << Group(MOUNT_OPTIONS_CONFIG_GROUP_DEFAULTS, g), Group(s_dev_sdb1, d) >> :
      g \in ScopeKeys(<< "a" >>, << >>), d \in ScopeKeys(<< "b" >>, << >>) }

\* override files: the general group and the group of a symlink of the device
ResolveFiles ==
  { << Group(MOUNT_OPTIONS_CONFIG_GROUP_DEFAULTS, g), Group(s_dev_by_label, d) >> :
      g \in ScopeKeys(<< "c" >>, << >>), d \in ScopeKeys(<< "d" >>, << >>) }

ResolveUdevProps == ScopeKeys(<< "e" >>, UDEV_MOUNT_OPTIONS_PREFIX)

ResolveInit ==
  /\ builtin_opts \in { Deref(udisks_linux_mount_options_get_builtin(r)) :
                          r \in ResolveBuiltins }
  /\ config_file \in { Ptr(f) : f \in ResolveFiles }
  /\ udev_props \in { Ptr(u) : u \in ResolveUdevProps }
  /\ pc = "start"
  /\ invocation = NoCall
  /\ h_o = NULL
  /\ h_fsmo_any = FSMountOptions0
  /\ h_fsmo = FSMountOptions0
  /\ h_options_to_use = << >>
  /\ h_ret = NoResult
  /\ supplementary_groups = supplementary_groups0
  /\ served = 0
  /\ env_changed = FALSE
  /\ thr = NoThreads

\* the three origins are applied to the two accumulators
ApplyOrigins ==
  /\ pc = "start"
  /\ pc' = "resolve"
  /\ \E builtin_keys \in KeyOrders(builtin_opts, TheBlock),
        override_keys \in OverrideKeyOrders(config_file, TheBlock) :
       \E l \in { compute_levels(builtin_opts, builtin_keys,
                                 mount_options_parse_config_file(config_file),
                                 override_keys, mount_options_get_from_udev(udev_props),
                                 TheBlock, s_vfat) } :
          /\ h_fsmo' = l.fsmo
          /\ h_fsmo_any' = l.fsmo_any
  /\ UNCHANGED << builtin_opts, config_file, udev_props, invocation, h_o,
                  h_options_to_use, h_ret, supplementary_groups, served, env_changed, thr >>

ResolveNext == ApplyOrigins \/ AppendAny

ResolveSpec == ResolveInit /\ [][ResolveNext]_vars

\* the group of a parsed two-level table that is scoped to the device, NULL
\* when the table has none
DeviceScope(opts) ==
  IF BlockKeys(opts, TheBlock) = { } THEN NULL
  ELSE Ptr(opts[CHOOSE k \in BlockKeys(opts, TheBlock) : TRUE])

\* the sources in ascending precedence: built-in general scope, built-in device
\* scope, override-file general scope, override-file device scope, device hint
Sources ==
  << g_hash_table_lookup(builtin_opts, MOUNT_OPTIONS_CONFIG_GROUP_DEFAULTS),
     DeviceScope(builtin_opts),
     g_hash_table_lookup(Deref(mount_options_parse_config_file(config_file)),
                         MOUNT_OPTIONS_CONFIG_GROUP_DEFAULTS),
     DeviceScope(Deref(mount_options_parse_config_file(config_file))),
     mount_options_get_from_udev(udev_props) >>

\* source n of src holds a list for field m of the accumulator with the given key
Defines(src, n, key, m) == src[n] # NULL /\ OriginMember(src[n], key, m) # NULL

\* the list of the highest-precedence source of src that defines the field,
\* NULL when no source does
Winner(src, key, m) ==
  IF \A n \in 1..Len(src) : ~Defines(src, n, key, m) THEN NULL
  ELSE OriginMember(src[CHOOSE n \in 1..Len(src) :
                          /\ Defines(src, n, key, m)
                          /\ \A k \in (n + 1)..Len(src) : ~Defines(src, k, key, m)],
                    key, m)

\* C13: after all origins are applied, each field of the general and of the
\* fstype-specific accumulator is the list of the highest-precedence source
\* that holds a list for it, in the order built-in general < built-in device <
\* override-file general < override-file device < device hint, unmerged.
C13_HighestPrecedenceWins ==
  pc = "resolve" =>
    \E src \in { Sources } :
      \A m \in Members :
        /\ h_fsmo_any[m] = Winner(src, MOUNT_OPTIONS_CONFIG_GROUP_DEFAULTS, m)
        /\ h_fsmo[m] = Winner(src, s_vfat, m)

\* all five sources hold lists: allow comes from the override file's device
\* scope although its general scope and the built-in general scope define it,
\* defaults from the device hint over the built-in device scope
C13_Witness ==
  /\ pc = "resolve"
  /\ h_fsmo.allow = Ptr(<< << "d" >> >>)
  /\ h_fsmo.defaults = Ptr(<< << "e" >> >>)
  /\ h_fsmo_any.allow = Ptr(<< << "d" >> >>)
  /\ \E src \in { Sources } :
       /\ Defines(src, 1, s_vfat, "allow")
       /\ Defines(src, 2, s_vfat, "defaults")
       /\ Defines(src, 3, s_vfat, "allow")
       /\ Defines(src, 4, s_vfat, "allow")
       /\ Defines(src, 5, s_vfat, "defaults")

(***************************************************************************)
(* Properties of the lists the loaders and the resolver build (MergeSpec)  *)
(***************************************************************************)
NoDuplicates(list) ==
  \A i \in 1..Len(list) : \A j \in 1..Len(list) : i # j => list[i] # list[j]

RecordNoDuplicates(record) == \A m \in Members : NoDuplicates(Entries(record[m]))

\* C14: no list of a record built by a loader, and no list of the record the
\* resolver returns, holds a token more than once.
C14_NoDuplicates ==
  /\ h_o # NULL => \A key \in DOMAIN Deref(h_o) : RecordNoDuplicates(Deref(h_o)[key])
  /\ pc = "merged" => RecordNoDuplicates(h_fsmo)

\* the loader kept both y of the value y,y
C14_WitnessLoader ==
  /\ h_o # NULL
  /\ OriginMember(h_o, MOUNT_OPTIONS_CONFIG_GROUP_DEFAULTS, "defaults")
       = Ptr(<< << "y" >>, << "y" >> >>)

\* general defaults [y, y] were merged into specific defaults [x]: the returned
\* record holds y twice
C14_Witness ==
  /\ pc = "merged"
  /\ h_fsmo_any.defaults = Ptr(<< << "y" >>, << "y" >> >>)
  /\ h_fsmo.defaults = Ptr(<< v_x, << "y" >>, << "y" >> >>)

(***************************************************************************)
(* One input evaluated twice: an override file with one or two groups      *)
(* scoped to the device, on a device that may be mounted at a shared       *)
(* location                                                                *)
(***************************************************************************)
v_mode_allow_ro == << "m", "o", "d", "e", "=", ",", "r", "o" >>

v_mode_07 == << "m", "o", "d", "e", "=", "0", "7" >>

TwiceBuiltin ==
  << Group(MOUNT_OPTIONS_CONFIG_GROUP_DEFAULTS,
           << << MOUNT_OPTIONS_KEY_ALLOW, v_mode_allow_ro >> >>) >>

\* what a device group of the override file may say
TwiceScopeKeys ==
  { << << k_vfat_defaults, v >> >> : v \in { v_ro, v_mode_0755, v_mode_07 } }

\* a group for the device file alone, or one for the device file and one for
\* a symlink of the device
TwiceFiles ==
  { << Group(s_dev_sdb1, d) >> : d \in TwiceScopeKeys }
    \cup { << Group(s_dev_sdb1, d), Group(s_dev_by_label, l) >> :
             d \in TwiceScopeKeys, l \in TwiceScopeKeys }

Evaluations == { 1, 2 }

NotEvaluated == [at |-> "pending", fsmo |-> FSMountOptions0, str |-> NULL, error |-> NULL]

\* g_hash_table_get_keys lists the keys of a table in an order GLib does not
\* specify; it follows from the keys' hashes and the insertions that built the
\* table, so every evaluation of one input gets the listing h_o holds
TwiceInit ==
  /\ builtin_opts = Deref(udisks_linux_mount_options_get_builtin(TwiceBuiltin))
  /\ config_file \in { Ptr(f) : f \in TwiceFiles }
  /\ udev_props \in { Ptr(UdevNoHints), Ptr(UdevShared) }
  /\ pc = "twice"
  /\ invocation = Ptr([block |-> TheBlock, caller_uid |-> 1000, fs_type |-> s_vfat,
                       options |-> Ptr(v_ro)])
  /\ h_o \in [builtin_keys : KeyOrders(builtin_opts, TheBlock),
              override_keys : OverrideKeyOrders(config_file, TheBlock)]
  /\ h_fsmo_any = FSMountOptions0
  /\ h_fsmo = FSMountOptions0
  /\ h_options_to_use = << >>
  /\ h_ret = NoResult
  /\ supplementary_groups = supplementary_groups0
  /\ served = 0
  /\ env_changed = FALSE
  /\ thr = [e \in Evaluations |-> NotEvaluated]

\* evaluation e of udisks_linux_calculate_mount_options runs to its return
Evaluate(e) ==
  /\ pc = "twice"
  /\ thr[e].at = "pending"
  /\ \E heap \in HeapTails :
       \E r \in { udisks_linux_calculate_mount_options(builtin_opts, h_o.builtin_keys,
                     config_file, h_o.override_keys, udev_props, Deref(invocation), heap,
                     supplementary_groups) } :
          /\ thr' = [thr EXCEPT ![e] = [at |-> "done", fsmo |-> r.fsmo, str |-> r.str,
                                        error |-> r.error]]
          /\ supplementary_groups' = r.buf
  /\ UNCHANGED << builtin_opts, config_file, udev_props, pc, invocation, h_o, h_fsmo_any,
                  h_fsmo, h_options_to_use, h_ret, served, env_changed >>

TwiceNext == \E e \in Evaluations : Evaluate(e)

TwiceSpec == TwiceInit /\ [][TwiceNext]_vars

AllEvaluated == \A e \in Evaluations : thr[e].at = "done"

\* the groups of the override file that are scoped to the device
OverrideBlockKeys ==
  BlockKeys(Deref(mount_options_parse_config_file(config_file)), TheBlock)

\* C15: two evaluations of the same input (device, fstype, requester, option
\* string, built-in store, override file, device hints) give the same
\* effective record and the same result.
C15_SameInputSameResult ==
  AllEvaluated =>
    \A e1 \in Evaluations : \A e2 \in Evaluations :
      /\ thr[e1].fsmo = thr[e2].fsmo
      /\ thr[e1].str = thr[e2].str
      /\ thr[e1].error = thr[e2].error

\* both evaluations succeeded on the same input and returned different strings
C15_Witness ==
  /\ AllEvaluated
  /\ thr[1].fsmo = thr[2].fsmo
  /\ thr[1].str # NULL
  /\ thr[2].str # NULL
  /\ thr[1].str # thr[2].str

\* two groups of the override file are scoped to the device and say different
\* things: both evaluations used the same one
C15_WitnessTwoScopes ==
  /\ AllEvaluated
  /\ Cardinality(OverrideBlockKeys) = 2
  /\ \E k1 \in OverrideBlockKeys : \E k2 \in OverrideBlockKeys :
       Deref(mount_options_parse_config_file(config_file))[k1]
         # Deref(mount_options_parse_config_file(config_file))[k2]
  /\ thr[1].fsmo = thr[2].fsmo
  /\ thr[1].str = thr[2].str

(***************************************************************************)
(* The default synthesizer alone: the candidate of a record whose only     *)
(* default is <name>=0700, for names around uid, gid, mode and dmode       *)
(***************************************************************************)
v_0700 == << "0", "7", "0", "0" >>

\* the four names, their proper prefixes (the empty name included), a longer
\* name and an unrelated one
RewriteNames ==
  { << >>, << "u" >>, << "u", "i" >>, s_uid, << "u", "i", "d", "x" >>,
    << "g" >>, << "g", "i" >>, s_gid,
    << "m" >>, << "m", "o", "d" >>, s_mode,
    << "d" >>, << "d", "m" >>, s_dmode, << "z", "z" >> }

\* the record's allow list is absent or lists the default explicitly
RewriteRecords ==
  UNION { { [FSMountOptions0 EXCEPT !.defaults = Ptr(<< OptionEqValue(name, v_0700) >>),
                                    !.allow = a] :
              a \in { NULL, Ptr(<< OptionEqValue(name, v_0700) >>) } } :
          name \in RewriteNames }

RewriteInit ==
  /\ builtin_opts = g_hash_table_new
  /\ config_file = NULL
  /\ udev_props \in { Ptr(UdevNoHints), Ptr(UdevShared) }
  /\ pc = "call"
  /\ invocation \in { Ptr([caller_uid |-> u, options |-> NULL]) : u \in CallerUids }
  /\ h_o = NULL
  /\ h_fsmo_any = FSMountOptions0
  /\ h_fsmo \in RewriteRecords
  /\ h_options_to_use = << >>
  /\ h_ret = NoResult
  /\ supplementary_groups = supplementary_groups0
  /\ served = 0
  /\ env_changed = FALSE
  /\ thr = NoThreads

RewriteNext == Prepend

RewriteSpec == RewriteInit /\ [][RewriteNext]_vars

\* the name and the value of the record's only default
TheDefaultName == SubSeq(TheDefault, 1, strchr(TheDefault, "=") - 1)

TheDefaultValue == SubSeq(TheDefault, strchr(TheDefault, "=") + 1, Len(TheDefault))

ListedInAllow == g_strv_contains(Entries(h_fsmo.allow), TheDefault)

\* the shared-location mode of a four-digit mode
SharedModeOf(value) ==
  << value[1], value[2], fmt_u(MAX(DigitVal(value[2]) - 2, 4))[1],
     fmt_u(MAX(DigitVal(value[2]) - 2, 4))[1] >>

TheCallerUid == Deref(invocation).caller_uid

\* C16 as stated: a default name=value that allow does not list is rewritten
\* to uid=<requester uid> only when its name is exactly uid, to gid=<primary
\* gid> only when it is exactly gid, to the shared-location mode and dmode only
\* when shared_fs holds and it is exactly mode or dmode; with any other name,
\* and whenever allow lists it, it is emitted with its own name and value.
C16_ExactNamesOnly ==
  pc = "returned" =>
    h_options_to_use =
      << IF ListedInAllow THEN << TheDefaultName, TheDefaultValue >>
         ELSE IF TheDefaultName = s_uid THEN << s_uid, fmt_u(TheCallerUid) >>
         ELSE IF TheDefaultName = s_gid THEN << s_gid, fmt_u(PASSWD[TheCallerUid].gid) >>
         ELSE IF is_shared_fs(udev_props) /\ TheDefaultName = s_mode
           THEN << s_mode, SharedModeOf(TheDefaultValue) >>
         ELSE IF is_shared_fs(udev_props) /\ TheDefaultName = s_dmode
           THEN << s_dmode, s_0555 >>
         ELSE << TheDefaultName, TheDefaultValue >> >>

\* the default u=0700, not listed in allow, became uid=<requester uid>
C16_Witness ==
  /\ pc = "returned"
  /\ ~ListedInAllow
  /\ TheDefaultName = << "u" >>
  /\ h_options_to_use = << << s_uid, fmt_u(TheCallerUid) >> >>

\* the default =0700 (empty name) became uid=<requester uid>
C16_WitnessEmptyName ==
  /\ pc = "returned"
  /\ ~ListedInAllow
  /\ TheDefaultName = << >>
  /\ h_options_to_use = << << s_uid, fmt_u(TheCallerUid) >> >>

\* the default uid=0700 became uid=<requester uid>, mode=0700 the shared mode
C16_WitnessExactNames ==
  /\ pc = "returned"
  /\ ~ListedInAllow
  /\ \/ TheDefaultName = s_uid /\ h_options_to_use = << << s_uid, fmt_u(TheCallerUid) >> >>
     \/ TheDefaultName = s_mode /\ h_options_to_use = << << s_mode, << "0", "7", "5", "5" >> >> >>

(***************************************************************************)
(* The default synthesizer alone: the candidate of a record whose only     *)
(* default is mode=<value>, for every short value                          *)
(***************************************************************************)
MaxModeLen == 4

ShortModeValues == UNION { [1..k -> { "0", "5", "7" }] : k \in 0..MaxModeLen }

ShortModeRecords ==
  { [FSMountOptions0 EXCEPT !.defaults = Ptr(<< OptionEqValue(s_mode, v) >>)] :
      v \in ShortModeValues }

ShortModeInit ==
  /\ builtin_opts = g_hash_table_new
  /\ config_file = NULL
  /\ udev_props \in { Ptr(UdevNoHints), Ptr(UdevShared) }
  /\ pc = "call"
  /\ invocation = Ptr([caller_uid |-> 1000, options |-> NULL])
  /\ h_o = NULL
  /\ h_fsmo_any = FSMountOptions0
  /\ h_fsmo \in ShortModeRecords
  /\ h_options_to_use = << >>
  /\ h_ret = NoResult
  /\ supplementary_groups = supplementary_groups0
  /\ served = 0
  /\ env_changed = FALSE
  /\ thr = NoThreads

ShortModeNext == Prepend

ShortModeSpec == ShortModeInit /\ [][ShortModeNext]_vars

\* the shared-location branch ran on the record's default mode=<value>
SharedBranchRan == pc = "returned" /\ is_shared_fs(udev_props)

\* the value of the candidate the branch emitted
TheEmittedMode == h_options_to_use[1][2]

\* C17: the shared-location mode adjustment reads and writes only character
\* positions of the default's value: every index it uses is below the value's
\* length, the emitted value is as long as the value, and it differs from the
\* value only at the indices written.
C17_WithinTheValue ==
  SharedBranchRan =>
    /\ \A i \in shared_mode_read \cup shared_mode_written : i < Len(TheModeValue)
    /\ Len(TheEmittedMode) = Len(TheModeValue)
    /\ \A i \in 1..Len(TheModeValue) :
         TheEmittedMode[i] # TheModeValue[i] => (i - 1) \in shared_mode_written

\* the default mode=07 came out longer than it went in
C17_Witness ==
  /\ SharedBranchRan
  /\ TheModeValue = << "0", "7" >>
  /\ TheEmittedMode = << "0", "7", "5", "5", "7" >>

\* the default mode= (empty value) reached the branch
C17_WitnessEmpty ==
  /\ SharedBranchRan
  /\ TheModeValue = << >>
  /\ h_options_to_use = << << s_mode, << >> >> >>

====
